---- MODULE Spec2Model ----
(***************************************************************************)
(* The compound-interest calculator: the projection calculateYearlyData,   *)
(* the summary aggregates, the comparison rates, and the input handlers of *)
(* the calculator page that feed them.                                     *)
(*                                                                         *)
(* JavaScript numbers are modelled as exact rationals (no rounding), so    *)
(* what is checked is the arithmetic the code asks for; the last-bit       *)
(* rounding of IEEE doubles is outside the model.                          *)
(***************************************************************************)
EXTENDS Integers, Sequences, FiniteSets, TLC

(***************************************************************************)
(* Natural numbers of any size: little-endian sequences of base-1000       *)
(* limbs without leading (high) zero limbs; <<>> is zero.  The operations  *)
(* split the limbs in halves, which keeps their evaluation shallow.        *)
(***************************************************************************)
\* e, with v evaluated first
Then(v, e) == IF v = v THEN e ELSE e

SetMax(S) == CHOOSE x \in S : \A y \in S : y <= x
SetMin(S) == CHOOSE x \in S : \A y \in S : x <= y

RECURSIVE NatOf(_)
NatOf(k) == IF k = 0 THEN <<>> ELSE <<k % 1000>> \o NatOf(k \div 1000)

RECURSIVE NatToInt(_)
NatToInt(a) == IF a = <<>> THEN 0 ELSE Head(a) + 1000 * NatToInt(Tail(a))

Limb(a, i) == IF i <= Len(a) THEN a[i] ELSE 0

NatTrim(a) ==
    LET nz == {i \in 1..Len(a) : a[i] # 0}
    IN  IF nz = {} THEN <<>> ELSE SubSeq(a, 1, SetMax(nz))

\* limbs lo..hi of a + b + c, and the carry out of limb hi
RECURSIVE NatAddR(_, _, _, _, _)
NatAddR(a, b, c, lo, hi) ==
    IF lo = hi
    THEN LET x == Limb(a, lo) + Limb(b, lo) + c
         IN  [s |-> <<x % 1000>>, c |-> x \div 1000]
    ELSE LET mid == (lo + hi) \div 2
             l   == NatAddR(a, b, c, lo, mid)
             h   == NatAddR(a, b, l.c, mid + 1, hi)
         IN  [s |-> l.s \o h.s, c |-> h.c]

NatAdd(a, b) ==
    LET n == IF Len(a) > Len(b) THEN Len(a) ELSE Len(b)
        r == NatAddR(a, b, 0, 1, n)
    IN  IF n = 0 THEN <<>> ELSE IF r.c = 0 THEN r.s ELSE Append(r.s, r.c)

\* limbs lo..hi of a - b - w for a >= b, and the borrow out of limb hi
RECURSIVE NatSubR(_, _, _, _, _)
NatSubR(a, b, w, lo, hi) ==
    IF lo = hi
    THEN LET x == Limb(a, lo) - Limb(b, lo) - w
         IN  [s |-> <<IF x < 0 THEN x + 1000 ELSE x>>, c |-> IF x < 0 THEN 1 ELSE 0]
    ELSE LET mid == (lo + hi) \div 2
             l   == NatSubR(a, b, w, lo, mid)
             h   == NatSubR(a, b, l.c, mid + 1, hi)
         IN  [s |-> l.s \o h.s, c |-> h.c]

NatSub(a, b) == IF a = <<>> THEN <<>> ELSE NatTrim(NatSubR(a, b, 0, 1, Len(a)).s)

\* -1, 0 or 1 as a < b, a = b or a > b
NatCmp(a, b) ==
    IF Len(a) < Len(b) THEN -1
    ELSE IF Len(a) > Len(b) THEN 1
    ELSE LET d == {i \in 1..Len(a) : a[i] # b[i]}
         IN  IF d = {} THEN 0
             ELSE IF a[SetMax(d)] < b[SetMax(d)] THEN -1 ELSE 1

\* limbs lo..hi of a * k + c for a small k (k <= 2000000), and the carry out
RECURSIVE NatMulSmallR(_, _, _, _, _)
NatMulSmallR(a, k, c, lo, hi) ==
    IF lo = hi
    THEN LET x == a[lo] * k + c
         IN  [s |-> <<x % 1000>>, c |-> x \div 1000]
    ELSE LET mid == (lo + hi) \div 2
             l   == NatMulSmallR(a, k, c, lo, mid)
             h   == NatMulSmallR(a, k, l.c, mid + 1, hi)
         IN  [s |-> l.s \o h.s, c |-> h.c]

NatMulSmall(a, k) ==
    IF k = 0 \/ a = <<>> THEN <<>>
    ELSE IF k = 1 THEN a
    ELSE LET r == NatMulSmallR(a, k, 0, 1, Len(a)) IN r.s \o NatOf(r.c)

\* a * 1000^m
NatShift(a, m) == IF a = <<>> THEN <<>> ELSE [i \in 1..m |-> 0] \o a

\* a times the limbs lo..hi of b
RECURSIVE NatMulR(_, _, _, _)
NatMulR(a, b, lo, hi) ==
    IF lo = hi THEN NatMulSmall(a, b[lo])
    ELSE LET mid == (lo + hi) \div 2
         IN  NatAdd(NatMulR(a, b, lo, mid),
                    NatShift(NatMulR(a, b, mid + 1, hi), mid + 1 - lo))

NatMul(a, b) == IF a = <<>> \/ b = <<>> THEN <<>> ELSE NatMulR(a, b, 1, Len(b))

\* limbs lo..hi of the quotient of a by a small k (0 < k <= 2000000), taken
\* from the high limb down with the remainder r coming in, and the remainder
RECURSIVE NatDivR(_, _, _, _, _)
NatDivR(a, k, r, lo, hi) ==
    IF lo = hi
    THEN LET cur == r * 1000 + a[lo]
         IN  [q |-> <<cur \div k>>, r |-> cur % k]
    ELSE LET mid == (lo + hi) \div 2
             h   == NatDivR(a, k, r, mid + 1, hi)
             l   == NatDivR(a, k, h.r, lo, mid)
         IN  Then(h, [q |-> l.q \o h.q, r |-> l.r])

NatDivRem(a, k) ==
    IF a = <<>> THEN [q |-> <<>>, r |-> 0]
    ELSE IF k = 1 THEN [q |-> a, r |-> 0]
    ELSE LET d == NatDivR(a, k, 0, 1, Len(a)) IN [q |-> NatTrim(d.q), r |-> d.r]

Pow10(r) == IF r = 0 THEN 1 ELSE IF r = 1 THEN 10 ELSE 100

NatMulPow10(a, k) ==
    IF k = 0 THEN a ELSE NatShift(NatMulSmall(a, Pow10(k % 3)), k \div 3)

\* how many decimal zeros a # 0 ends in
NatZeros(a) ==
    LET i == SetMin({j \in 1..Len(a) : a[j] # 0})
        v == a[i]
    IN  3 * (i - 1) + (IF v % 100 = 0 THEN 2 ELSE IF v % 10 = 0 THEN 1 ELSE 0)

\* a / 10^k for a that ends in k decimal zeros
NatDivPow10(a, k) ==
    NatDivRem(SubSeq(a, k \div 3 + 1, Len(a)), Pow10(k % 3)).q

RECURSIVE GCD(_, _)
GCD(a, b) == IF b = 0 THEN a ELSE GCD(b, a % b)

(***************************************************************************)
(* A number is the rational (-1)^neg * n / (q * 10^e) in canonical form:   *)
(* q is coprime to 10 and to n, and e is as small as possible.  Equal      *)
(* numbers are equal records.                                              *)
(***************************************************************************)
Zero == [neg |-> FALSE, n |-> <<>>, q |-> 1, e |-> 0]

\* move the factors 2 and 5 of q into the power of ten
RECURSIVE NumClearQ(_, _, _)
NumClearQ(n, q, e) ==
    IF q % 2 = 0 THEN NumClearQ(NatMulSmall(n, 5), q \div 2, e + 1)
    ELSE IF q % 5 = 0 THEN NumClearQ(NatMulSmall(n, 2), q \div 5, e + 1)
    ELSE [n |-> n, q |-> q, e |-> e]

\* drop k trailing decimal zeros of n against the power of ten
NumDrop(n, e, k) == [n |-> NatDivPow10(n, k), e |-> e - k]

\* drop the trailing decimal zeros of n against the power of ten
NumStrip(n, e, zeros) == NumDrop(n, e, IF zeros < e THEN zeros ELSE e)

NormStripped(neg, q, s) == [neg |-> neg, n |-> s.n, q |-> q, e |-> s.e]

NormReduced(neg, n, q, e) == NormStripped(neg, q, NumStrip(n, e, NatZeros(n)))

\* cancel the common factor g of c.n and c.q
NormCancel(neg, c, g) ==
    IF g = 1 THEN NormReduced(neg, c.n, c.q, c.e)
    ELSE NormReduced(neg, NatDivRem(c.n, g).q, c.q \div g, c.e)

NormCleared(neg, c) ==
    NormCancel(neg, c, IF c.q = 1 THEN 1 ELSE GCD(NatDivRem(c.n, c.q).r, c.q))

\* the canonical form of (-1)^neg * n / (q * 10^e)
Norm(neg, n, q, e) ==
    IF n = <<>> THEN Zero
    ELSE IF q = 1 THEN NormReduced(neg, n, q, e)
    ELSE NormCleared(neg, NumClearQ(n, q, e))

Abs(k) == IF k < 0 THEN -k ELSE k

Int2Num(k) == Norm(k < 0, NatOf(Abs(k)), 1, 0)

\* the decimal literal m * 10^-e
Dec(m, e) == Norm(m < 0, NatOf(Abs(m)), 1, e)

Neg(x) == IF x.n = <<>> THEN x ELSE [x EXCEPT !.neg = ~x.neg]

\* the sum of the signed naturals (xneg, xn) and (yneg, yn), over q * 10^e
AddAligned(xneg, xn, yneg, yn, q, e) ==
    IF xneg = yneg THEN Norm(xneg, NatAdd(xn, yn), q, e)
    ELSE IF NatCmp(xn, yn) >= 0 THEN Norm(xneg, NatSub(xn, yn), q, e)
    ELSE Norm(yneg, NatSub(yn, xn), q, e)

\* x + y with both brought to the denominator x.q * y.q * 10^e
AddAt(x, y, e) ==
    AddAligned(x.neg, NatMulPow10(NatMulSmall(x.n, y.q), e - x.e),
               y.neg, NatMulPow10(NatMulSmall(y.n, x.q), e - y.e),
               x.q * y.q, e)

Add(x, y) == AddAt(x, y, IF x.e > y.e THEN x.e ELSE y.e)

Sub(x, y) == Add(x, Neg(y))

Mul(x, y) == Norm(x.neg # y.neg, NatMul(x.n, y.n), x.q * y.q, x.e + y.e)

\* x / y for y # 0 whose numerator is below 2000000
Div(x, y) ==
    Mul(x, Norm(y.neg, NatMulPow10(NatOf(y.q), y.e), NatToInt(y.n), 0))

Less(x, y) == Sub(x, y).neg
Leq(x, y)  == ~Less(y, x)
Max(x, y)  == IF Less(x, y) THEN y ELSE x

One     == Int2Num(1)
Hundred == Int2Num(100)

(***************************************************************************)
(* Text typed into a field is a sequence of characters over digits, "-",   *)
(* "+", "." and "a" (standing for any character that is no part of a       *)
(* number).  Whitespace, exponents, hexadecimal prefixes and "Infinity"    *)
(* are not among the inputs enumerated.                                    *)
(***************************************************************************)
Digits == <<"0", "1", "2", "3", "4", "5", "6", "7", "8", "9">>

IsDigit(c) == \E i \in 1..10 : Digits[i] = c

DigitVal(c) == (CHOOSE i \in 1..10 : Digits[i] = c) - 1

\* the longest prefix of s made of digits
DigitsPrefix(s) ==
    LET other == {i \in 1..Len(s) : ~IsDigit(s[i])}
    IN  SubSeq(s, 1, IF other = {} THEN Len(s) ELSE SetMin(other) - 1)

\* the natural number a digit string denotes, most significant digit first
DigitsNat(ds) ==
    LET d(i) == IF i <= Len(ds) THEN DigitVal(ds[Len(ds) + 1 - i]) ELSE 0
    IN  NatTrim([j \in 1..((Len(ds) + 2) \div 3) |->
                    d(3 * j - 2) + 10 * d(3 * j - 1) + 100 * d(3 * j)])

\* NaN: the one number that is not a rational
NaN == [neg |-> FALSE, n |-> <<>>, q |-> 0, e |-> 0]

isNaN(x) == x.q = 0

\* the text after an optional sign
Unsigned(raw) == IF raw # <<>> /\ Head(raw) \in {"-", "+"} THEN Tail(raw) ELSE raw

\* the digits that follow a "." at the head of rest
Fraction(rest) ==
    IF rest # <<>> /\ Head(rest) = "." THEN DigitsPrefix(Tail(rest)) ELSE <<>>

ParseDecimal(neg, ip, fp) ==
    IF ip = <<>> /\ fp = <<>> THEN NaN ELSE Norm(neg, DigitsNat(ip \o fp), 1, Len(fp))

ParseFrom(neg, body, ip) ==
    ParseDecimal(neg, ip, Fraction(SubSeq(body, Len(ip) + 1, Len(body))))

\* parseFloat: optional sign, digits, optional "." and digits; the longest
\* such prefix is the value, and NaN when it holds no digit
parseFloat(raw) ==
    ParseFrom(raw # <<>> /\ Head(raw) = "-", Unsigned(raw), DigitsPrefix(Unsigned(raw)))

\* parseInt (radix 10): optional sign and the longest prefix of digits
parseInt(raw) ==
    ParseDecimal(raw # <<>> /\ Head(raw) = "-", DigitsPrefix(Unsigned(raw)), <<>>)

\* the i-th decimal digit of a, counted from the right
NatDigit(a, i) ==
    (Limb(a, (i - 1) \div 3 + 1) \div Pow10((i - 1) % 3)) % 10

\* how many decimal digits a # 0 has
NatDigitCount(a) ==
    3 * (Len(a) - 1)
    + (IF a[Len(a)] >= 100 THEN 3 ELSE IF a[Len(a)] >= 10 THEN 2 ELSE 1)

\* the decimal digits of a, most significant first, padded with zeros on the
\* left to at least w digits
NatText(a, w) ==
    [j \in 1..w |-> Digits[NatDigit(a, w + 1 - j) + 1]]

\* the digits of n / 10^e written with d >= e + 1 digits: a "." before the
\* last e of them when e > 0
DecimalText(n, e, d) ==
    IF e = 0 THEN NatText(n, d)
    ELSE SubSeq(NatText(n, d), 1, d - e) \o <<".">> \o SubSeq(NatText(n, d), d - e + 1, d)

\* Number.prototype.toString of a decimal number of ordinary size: sign,
\* integer digits, and "." with the fraction digits when there are any
toString(x) ==
    IF x.n = <<>> THEN <<"0">>
    ELSE (IF x.neg THEN <<"-">> ELSE <<>>)
         \o DecimalText(x.n, x.e,
                        IF NatDigitCount(x.n) > x.e THEN NatDigitCount(x.n) ELSE x.e + 1)

\* an integral number as a TLA+ integer (years index the loop and the array)
ToInt(x) == IF x.neg THEN -NatToInt(x.n) ELSE NatToInt(x.n)

(***************************************************************************)
(* The projection.  yearlyData is a JavaScript array: element i of the     *)
(* array is element i + 1 of the sequence.                                 *)
(***************************************************************************)
At(arr, i) == arr[i + 1]

\* yearlyData.push({...}) and the running state after the pass
YearPush(st, year, contribution, interestEarned, balance, totalContributed) ==
    [data |-> Append(st.data,
                     [year             |-> year,
                      startBalance     |-> st.balance,
                      contribution     |-> contribution,
                      interest         |-> interestEarned,
                      endBalance       |-> balance,
                      totalContributed |-> totalContributed]),
     balance          |-> balance,
     totalContributed |-> totalContributed]

\* as YearInterest, with the interest reported but never added to the balance
YearInterest_NotAdded(st, year, contribution, interestEarned, balance, totalContributed) ==
    YearPush(st, year, contribution, interestEarned, balance, totalContributed)

\* balance += interestEarned
YearInterest(st, year, contribution, interestEarned, balance, totalContributed) ==
    YearPush(st, year, contribution, interestEarned,
             Add(balance, interestEarned), totalContributed)

\* as YearContribution, with the interest taken on the balance before the
\* contribution
YearContribution_InterestFirst(st, year, contribution, rate, balance, totalContributed) ==
    YearInterest(st, year, contribution, Mul(st.balance, rate), balance, totalContributed)

\* as YearContribution, with the growth factor 1 + rate taken for the rate
YearContribution_GrowthFactor(st, year, contribution, rate, balance, totalContributed) ==
    YearInterest(st, year, contribution, Mul(balance, Add(One, rate)), balance,
                 totalContributed)

\* balance += contribution; interestEarned = balance * rate
\* (First add contribution, then calculate interest)
YearContribution(st, year, contribution, rate, balance, totalContributed) ==
    YearInterest(st, year, contribution, Mul(balance, rate), balance, totalContributed)

\* as YearStep, with totalContributed left as it was
YearStep_NotAccumulated(st, annualContribution, rate, year) ==
    YearContribution(st, year, annualContribution, rate,
                     Add(st.balance, annualContribution), st.totalContributed)

\* as YearStep, with the contribution paid in at the end of the year, after
\* the interest
YearStep_ContributionLast(st, annualContribution, rate, year) ==
    YearPush(st, year, annualContribution, Mul(st.balance, rate),
             Add(Add(st.balance, Mul(st.balance, rate)), annualContribution),
             Add(st.totalContributed, annualContribution))

\* one pass of the loop body for `year`, from the running state st: the array
\* so far, the balance and the total contributed
YearStep(st, annualContribution, rate, year) ==
    YearContribution(st, year, annualContribution, rate,
                     Add(st.balance, annualContribution),
                     Add(st.totalContributed, annualContribution))

\* for (let year = from; year <= to; year++) { ... }: the passes run in
\* ascending order of year; the range is halved only to keep evaluation shallow
RECURSIVE YearLoop(_, _, _, _, _)
YearLoop(st, annualContribution, rate, from, to) ==
    IF from > to THEN st
    ELSE IF from = to THEN YearStep(st, annualContribution, rate, from)
    ELSE LET mid   == (from + to) \div 2
             first == YearLoop(st, annualContribution, rate, from, mid)
         IN  Then(first, YearLoop(first, annualContribution, rate, mid + 1, to))

\* Year 0 (initial state): the array, balance and totalContributed before the loop
YearZero(p) ==
    [data |-> << [year             |-> 0,
                  startBalance     |-> Zero,
                  contribution     |-> p,
                  interest         |-> Zero,
                  endBalance       |-> p,
                  totalContributed |-> p] >>,
     balance          |-> p,
     totalContributed |-> p]

\* as calculateYearlyData, with the loop condition year < years
calculateYearlyData_StopsEarly(p, c, r, y) ==
    YearLoop(YearZero(p), c, Div(r, Hundred), 1, y - 1).data

\* as calculateYearlyData, with the percentage taken for the rate
calculateYearlyData_RateNotDivided(p, c, r, y) ==
    YearLoop(YearZero(p), c, r, 1, y).data

\* the calculator that takes the contribution as already annual
calculateYearlyData(p, c, r, y) ==
    LET rate               == Div(r, Hundred)
        annualContribution == c
    IN  YearLoop(YearZero(p), annualContribution, rate, 1, y).data

\* as calculateYearlyDataMonthly, without the twelve months of a year
calculateYearlyDataMonthly_NotTimesTwelve(p, c, r, y) == calculateYearlyData(p, c, r, y)

\* the calculator that takes the contribution as monthly
calculateYearlyDataMonthly(p, c, r, y) ==
    LET rate               == Div(r, Hundred)
        annualContribution == Mul(c, Int2Num(12))
    IN  YearLoop(YearZero(p), annualContribution, rate, 1, y).data

(***************************************************************************)
(* The comparison rates.                                                   *)
(***************************************************************************)
\* as calculateDynamicGaps, with > for >= at the steps
calculateDynamicGaps_Exclusive(userRate) ==
    IF Less(Int2Num(12), userRate) THEN [gap1 |-> Int2Num(8), gap2 |-> Int2Num(4)]
    ELSE IF Less(Int2Num(8), userRate) THEN [gap1 |-> Int2Num(6), gap2 |-> Int2Num(3)]
    ELSE IF Less(Int2Num(5), userRate) THEN [gap1 |-> Int2Num(3), gap2 |-> Dec(15, 1)]
    ELSE [gap1 |-> Max(One, Mul(userRate, Dec(4, 1))),
          gap2 |-> Max(Dec(5, 1), Mul(userRate, Dec(2, 1)))]

\* calculateDynamicGaps of the calculator page
calculateDynamicGaps(userRate) ==
    IF Leq(Int2Num(12), userRate) THEN [gap1 |-> Int2Num(8), gap2 |-> Int2Num(4)]
    ELSE IF Leq(Int2Num(8), userRate) THEN [gap1 |-> Int2Num(6), gap2 |-> Int2Num(3)]
    ELSE IF Leq(Int2Num(5), userRate) THEN [gap1 |-> Int2Num(3), gap2 |-> Dec(15, 1)]
    ELSE [gap1 |-> Max(One, Mul(userRate, Dec(4, 1))),
          gap2 |-> Max(Dec(5, 1), Mul(userRate, Dec(2, 1)))]

\* calculateDynamicGaps of the chart component
calculateDynamicGapsChart(userRate) ==
    IF Leq(Int2Num(12), userRate) THEN [gap1 |-> Int2Num(8), gap2 |-> Int2Num(4)]
    ELSE IF Leq(Int2Num(8), userRate) THEN [gap1 |-> Int2Num(6), gap2 |-> Int2Num(3)]
    ELSE IF Leq(Int2Num(5), userRate) THEN [gap1 |-> Int2Num(3), gap2 |-> Dec(15, 1)]
    ELSE [gap1 |-> Max(One, Mul(userRate, Dec(4, 1))),
          gap2 |-> Max(Dec(5, 1), Mul(userRate, Dec(2, 1)))]

\* as refRatesOf, without the floor of 0.1
refRatesOf_NoFloor(rate, gaps) ==
    << Sub(rate, gaps.gap1), Sub(rate, gaps.gap2), Add(rate, Int2Num(3)) >>

\* refRates of renderReferenceValues: yellow, blue, purple
refRatesOf(rate, gaps) ==
    << Max(Dec(1, 1), Sub(rate, gaps.gap1)),
       Max(Dec(1, 1), Sub(rate, gaps.gap2)),
       Add(rate, Int2Num(3)) >>

refRates(rate) == refRatesOf(rate, calculateDynamicGaps(rate))

\* refRate1..3 of the chart component
refRatesChartOf(rate, gaps) ==
    << Max(Dec(1, 1), Sub(rate, gaps.gap1)),
       Max(Dec(1, 1), Sub(rate, gaps.gap2)),
       Add(rate, Int2Num(3)) >>

refRatesChart(rate) == refRatesChartOf(rate, calculateDynamicGapsChart(rate))

\* refBalances of renderReferenceValues; the array element [years] is read
refBalancesOf(p, c, rates, y) ==
    [i \in 1..3 |-> At(calculateYearlyData(p, c, rates[i], y), y).endBalance]

refBalances(p, c, r, y) == refBalancesOf(p, c, refRates(r), y)

\* calculateWithRate of the chart component: result.push(balance)
RatePush(st, balance) == [result |-> Append(st.result, balance), balance |-> balance]

\* as RateStep, with the interest added before the year's contribution
RateStep_InterestFirst(st, monthlyContribution, rate) ==
    RatePush(st, Add(Mul(st.balance, Add(One, Div(rate, Hundred))),
                     Mul(monthlyContribution, Int2Num(12))))

\* balance += monthlyContribution * 12; balance *= (1 + rate / 100)
RateStep(st, monthlyContribution, rate) ==
    RatePush(st, Mul(Add(st.balance, Mul(monthlyContribution, Int2Num(12))),
                     Add(One, Div(rate, Hundred))))

\* for (let year = from; year <= to; year++) { ... }, halved as YearLoop is
RECURSIVE RateLoop(_, _, _, _, _)
RateLoop(st, monthlyContribution, rate, from, to) ==
    IF from > to THEN st
    ELSE IF from = to THEN RateStep(st, monthlyContribution, rate)
    ELSE LET mid   == (from + to) \div 2
             first == RateLoop(st, monthlyContribution, rate, from, mid)
         IN  Then(first, RateLoop(first, monthlyContribution, rate, mid + 1, to))

calculateWithRate(p, monthlyContribution, rate, y) ==
    RateLoop([result |-> <<p>>, balance |-> p], monthlyContribution, rate, 1, y).result

\* the chart component's principal, monthlyContribution and totalYears, taken
\* from the yearlyData it is given
chartPrincipal(data) == At(data, 0).endBalance

chartMonthlyContribution(data) ==
    IF Len(data) > 1 THEN Div(At(data, 1).contribution, Int2Num(12)) ELSE Zero

totalYears(data) == Len(data) - 1

\* refData1, refData2, refData3 of the chart component
refData(data, rate) ==
    [i \in 1..3 |-> calculateWithRate(chartPrincipal(data), chartMonthlyContribution(data),
                                      refRatesChart(rate)[i], totalYears(data))]

\* calculateCumulativeReturn of the chart component
calculateCumulativeReturn(endBalance, totalContributed) ==
    IF Leq(totalContributed, Zero) THEN Zero
    ELSE Mul(Div(Sub(endBalance, totalContributed), totalContributed), Hundred)

(***************************************************************************)
(* The calculator page: its four inputs and the memoised projection.       *)
(***************************************************************************)
VARIABLES principal, monthlyContribution, annualRate, years, yearlyData

\* which page is open: "annual" is the calculator of src/next.config.ts,
\* "monthly" the one of src/src/app/calculator/page.tsx
VARIABLES page

\* the chart type, the table page, and the screen the media queries report
VARIABLES chartType, currentPage, itemsPerPage, isMobile, isTablet

\* the validation flags and the animation control
VARIABLES errors, allValuesFilled, isInteracting, shouldPulse

\* interactionTimerRef: <<>> when no timeout is pending, else <<ms>> with the
\* milliseconds left before it fires
VARIABLES interactionTimer

\* the browser's localStorage, and the content a 'storage' listener finds in
\* it when the last event is dispatched
VARIABLES localStorage, storageEventSeen

\* the milliseconds since the inputs last changed, counted up to TimerDelay
VARIABLES sinceChange

\* smoothScroll: the window's scroll position, the values the running call
\* has fixed (<<>> while none was made), its startTime (<<>> for null), whether
\* an animation frame is requested, the time in milliseconds since the call,
\* and what the call has done so far
VARIABLES pageYOffset, scrollArgs, startTime, animationRequested, currentTime,
          scrollLog

smoothScrollVars ==
    <<pageYOffset, scrollArgs, startTime, animationRequested, currentTime, scrollLog>>

\* no call of smoothScroll was made, and the window is at the top
SmoothScrollAtRest ==
    /\ pageYOffset = Zero
    /\ scrollArgs = <<>>
    /\ startTime = <<>>
    /\ animationRequested = FALSE
    /\ currentTime = 0
    /\ scrollLog = <<>>

\* AnimatedValue: which of the two sources of the component is mounted, the
\* easing prop ("default" when the parent leaves it out, "constant" when it
\* passes the same array in every render), the value prop, displayValue,
\* prevValueRef, whether the timeout of debounceRef is pending, and the
\* animation of animRef: <<>> when none runs, else the record of its two ends
\* and of the keyframe it has reached.  The numbers are in tenths.
VARIABLES animatedValueSource, easingProp, valueProp, displayValue, prevValueRef,
          debounceRef, animRef

animatedValueVars ==
    <<animatedValueSource, easingProp, valueProp, displayValue, prevValueRef,
      debounceRef, animRef>>

\* the component after its first render with value 0: nothing is animated
AnimatedValueAtRest ==
    /\ animatedValueSource = "part_004"
    /\ easingProp = "default"
    /\ valueProp = 0
    /\ displayValue = 0
    /\ prevValueRef = 0
    /\ debounceRef = FALSE
    /\ animRef = <<>>

\* useScrollAnimation: which of the three sources of the hook is used with
\* which options, the element the ref is attached to, window.scrollY, the
\* hook's isVisible, scrollingDown and prevScrollY, whether the observer of
\* the last run of the effect observes the element, and the isIntersecting of
\* the entry it delivered last (<<>> before the first)
VARIABLES hookSource, hookOptions, element, scrollY, isVisible, scrollingDown,
          prevScrollY, observing, previousIsIntersecting

hookVars ==
    <<hookSource, hookOptions, element, scrollY, isVisible, scrollingDown,
      prevScrollY, observing, previousIsIntersecting>>

\* AnimatedCounter: the value and useEasing props, count, startTimeRef (<<>>
\* for null), whether delayTimeout is pending, whether an animation frame is
\* requested by animate, and the timestamp of the last frame
VARIABLES counterValue, useEasing, count, startTimeRef, delayTimeout, frameRef,
          timestamp

counterVars ==
    <<counterValue, useEasing, count, startTimeRef, delayTimeout, frameRef, timestamp>>

\* the counter of value 0 before its element was seen
CounterAtRest ==
    /\ counterValue = Zero
    /\ useEasing = TRUE
    /\ count = Zero
    /\ startTimeRef = <<>>
    /\ delayTimeout = FALSE
    /\ frameRef = FALSE
    /\ timestamp = 0

\* the hook before its component has mounted: nothing is observed
HookAtRest ==
    /\ hookSource = "part_000"
    /\ hookOptions = [threshold |-> 30, rootMargin |-> 50, triggerOnce |-> FALSE]
    /\ element = "hero"
    /\ scrollY = 0
    /\ isVisible = FALSE
    /\ scrollingDown = TRUE
    /\ prevScrollY = 0
    /\ observing = FALSE
    /\ previousIsIntersecting = <<>>

\* the state of the components other than the calculator pages
componentVars == <<smoothScrollVars, animatedValueVars, hookVars, counterVars>>

\* the components as they are while the calculator pages are explored
ComponentsAtRest ==
    SmoothScrollAtRest /\ AnimatedValueAtRest /\ HookAtRest /\ CounterAtRest

inputs == <<principal, monthlyContribution, annualRate, years>>

uiVars ==
    <<chartType, currentPage, itemsPerPage, errors, allValuesFilled, isInteracting,
      shouldPulse, interactionTimer, localStorage, storageEventSeen, sinceChange>>

\* the state of the calculator pages
calculatorVars ==
    <<principal, monthlyContribution, annualRate, years, yearlyData, page, chartType,
      currentPage, itemsPerPage, isMobile, isTablet, errors, allValuesFilled,
      isInteracting, shouldPulse, interactionTimer, localStorage, storageEventSeen,
      sinceChange>>

vars == <<calculatorVars, componentVars>>

\* the summary figures a render derives from yearlyData
finalBalance ==
    IF Len(yearlyData) > 0 THEN At(yearlyData, Len(yearlyData) - 1).endBalance ELSE Zero

totalContributed ==
    IF Len(yearlyData) > 0 THEN At(yearlyData, Len(yearlyData) - 1).totalContributed
    ELSE Zero

totalInterest == Sub(finalBalance, totalContributed)

\* as interestPercentage, as a share of the final balance
interestPercentage_OfFinalBalance ==
    IF Less(Zero, totalContributed)
    THEN Mul(Div(totalInterest, finalBalance), Hundred)
    ELSE Zero

interestPercentage ==
    IF Less(Zero, totalContributed)
    THEN Mul(Div(totalInterest, totalContributed), Hundred)
    ELSE Zero

\* finalReturnPercentage of the chart, from the yearlyData prop
finalReturnPercentage ==
    calculateCumulativeReturn(At(yearlyData, Len(yearlyData) - 1).endBalance,
                              At(yearlyData, Len(yearlyData) - 1).totalContributed)

(***************************************************************************)
(* The inputs enumerated.                                                  *)
(***************************************************************************)
PrincipalTexts ==
    { <<>>, <<"a">>, <<"-", "5">>, <<"1", "0", "0", "0", "0">> }

ContributionTexts ==
    { <<>>, <<"-", "5">>, <<"5", "0", "0", "0">>, <<"6", "0", "0", "0", "0">> }

RateTexts ==
    { <<>>, <<".">>, <<"2">>, <<"4", ".", "5">>, <<"5">>, <<"6">>, <<"8">>,
      <<"1", "0">>, <<"1", "2">>, <<"2", "0">>, <<"-", "5">>,
      <<"-", "3", "0", "0">> }

YearsTexts ==
    { <<>>, <<"a">>, <<"0">>, <<"-", "3">>, <<"2", ".", "9">>, <<"5">>,
      <<"2", "0">> }

\* the sliders: rate from 0 to 30 in steps of 0.5, years from 1 to 50
RateSliderMax  == 30
YearsSliderMin == 1
YearsSliderMax == 50

\* how many slider positions, counted from the low end, are explored
RateSliderBound  == 2
YearsSliderBound == 3

RateSliderValues ==
    { Mul(Int2Num(k), Dec(5, 1)) :
        k \in { j \in 0..RateSliderBound : j <= 2 * RateSliderMax } }

YearsSliderValues ==
    { y \in YearsSliderMin..YearsSliderMax : y < YearsSliderMin + YearsSliderBound }

(***************************************************************************)
(* The effects of the calculator page.  React runs them after the render   *)
(* in which one of their dependencies changed, in the order in which the   *)
(* component declares them, and before the next event or timeout is        *)
(* handled.                                                                *)
(***************************************************************************)
\* the rows per table page: 3 on a mobile screen, 5 on a tablet, all on desktop
MobileItems == 3
TabletItems == 5

ItemsForScreen(mobile, tablet, length) ==
    IF mobile THEN MobileItems ELSE IF tablet THEN TabletItems ELSE length

\* Update items per page based on screen size: runs when yearlyData.length
\* has changed
PaginationEffect ==
    IF Len(yearlyData') # Len(yearlyData)
    THEN /\ itemsPerPage' = ItemsForScreen(isMobile, isTablet, Len(yearlyData'))
         /\ currentPage' = 1
    ELSE UNCHANGED <<itemsPerPage, currentPage>>

\* the ranges of the validation
MaxAmount == 10000000
MaxRate   == 50
MaxYears  == 100

\* x < lo || x > hi
OutOfRange(x, lo, hi) == \E pair \in { <<x, lo>>, <<hi, x>> } : Less(pair[1], pair[2])

\* the flags of the three decimal inputs, each against 0 and its maximum
RangeFlags(values, maxima) ==
    [f \in DOMAIN values |-> OutOfRange(values[f], Zero, Int2Num(maxima[f]))]

\* Input validation
newErrors(p, c, r, y) ==
    RangeFlags([principal |-> p, monthlyContribution |-> c, annualRate |-> r],
               [principal |-> MaxAmount, monthlyContribution |-> MaxAmount,
                annualRate |-> MaxRate])
        @@ [years |-> y < 1 \/ y > MaxYears]

\* allFilled: principal is excluded, and years must be > 1
allFilled(c, r, y) == (\A x \in {c, r} : Less(Zero, x)) /\ y > 1

StorageKeys ==
    {"calculator_principal", "calculator_monthlyContribution",
     "calculator_annualRate", "calculator_years"}

\* a store in which no key is set (getItem gives null): <<>> stands for null
EmptyStorage == [k \in StorageKeys |-> <<>>]

setItem(store, key, value) == [store EXCEPT ![key] = value]

\* the store after the first three writes of the effect
StoredInputs3(store, p, c, r) ==
    setItem(setItem(setItem(store, "calculator_principal", toString(p)),
                    "calculator_monthlyContribution", toString(c)),
            "calculator_annualRate", toString(r))

\* the store after the four writes of the effect
StoredInputs(store, p, c, r, y) ==
    setItem(StoredInputs3(store, p, c, r), "calculator_years", toString(Int2Num(y)))

\* as DispatchStorageEvent, but dispatched before the write of the years
DispatchStorageEvent_BeforeYears(store, p, c, r, y) == StoredInputs3(store, p, c, r)

\* window.dispatchEvent(new Event('storage')): the store as it is when the
\* event is dispatched, which is what a listener reading it then finds
DispatchStorageEvent(store, p, c, r, y) == StoredInputs(store, p, c, r, y)

\* the timeout of the interaction timer, in milliseconds
TimerDelay == 1000

\* as PersistEffect, but setting the timeout only when no interaction is marked
PersistEffect_TimerOnlyWhenIdle ==
    /\ allValuesFilled' = allFilled(monthlyContribution', annualRate', years')
    /\ localStorage' =
           StoredInputs(localStorage, principal', monthlyContribution', annualRate',
                        years')
    /\ storageEventSeen' =
           DispatchStorageEvent(localStorage, principal', monthlyContribution',
                                annualRate', years')
    /\ isInteracting' = (allValuesFilled' \/ isInteracting)
    /\ interactionTimer' =
           IF allValuesFilled' /\ ~isInteracting THEN <<TimerDelay>> ELSE <<>>

\* Check if all values are filled and store in localStorage.  The cleanup of
\* the previous run clears the pending timeout before this run starts.
PersistEffect ==
    /\ allValuesFilled' = allFilled(monthlyContribution', annualRate', years')
    /\ localStorage' =
           StoredInputs(localStorage, principal', monthlyContribution', annualRate',
                        years')
    /\ storageEventSeen' =
           DispatchStorageEvent(localStorage, principal', monthlyContribution',
                                annualRate', years')
    /\ isInteracting' = (allValuesFilled' \/ isInteracting)
    /\ interactionTimer' = IF allValuesFilled' THEN <<TimerDelay>> ELSE <<>>

\* as PulseEffect, but pulsing whenever all values are filled
PulseEffect_IgnoresInteracting == shouldPulse' = allValuesFilled'

\* Determine if we should pulse: runs when allValuesFilled or isInteracting
\* has changed
PulseEffect ==
    shouldPulse' =
        IF <<allValuesFilled', isInteracting'>> # <<allValuesFilled, isInteracting>>
        THEN allValuesFilled' /\ ~isInteracting'
        ELSE shouldPulse

\* the effects that depend on the inputs, and the pulse effect after them; a
\* set state that leaves every input as it was renders nothing and runs none
InputEffects ==
    /\ IF <<principal', monthlyContribution', annualRate', years'>> # inputs
       THEN /\ PaginationEffect
            /\ errors' = newErrors(principal', monthlyContribution', annualRate', years')
            /\ PersistEffect
            /\ PulseEffect
            /\ sinceChange' = 0
            /\ UNCHANGED <<page, chartType, isMobile, isTablet>>
       ELSE UNCHANGED <<page, isMobile, isTablet, chartType, currentPage, itemsPerPage,
                        errors, allValuesFilled, isInteracting, shouldPulse,
                        interactionTimer, localStorage, storageEventSeen, sinceChange>>
    /\ UNCHANGED componentVars

\* as Render, but with a memo that is keyed on the principal alone
Render_PrincipalKey ==
    yearlyData' =
        IF principal' = principal THEN yearlyData
        ELSE calculateYearlyData(principal', monthlyContribution', annualRate', years')

\* as Render, but keeping the old projection while a field is flagged
Render_WhenValid ==
    yearlyData' =
        IF \E f \in DOMAIN errors : errors[f] THEN yearlyData
        ELSE calculateYearlyData(principal', monthlyContribution', annualRate', years')

(***************************************************************************)
(* The handlers.  A state change re-renders the page, the render           *)
(* recomputes the memoised yearlyData from the new inputs, and the effects *)
(* follow.                                                                 *)
(***************************************************************************)
Render ==
    yearlyData' = calculateYearlyData(principal', monthlyContribution', annualRate', years')

\* with 1 in the place of 0
NumberOrZero_One(value) == IF isNaN(value) THEN One ELSE value

\* isNaN(value) ? 0 : value
NumberOrZero(value) == IF isNaN(value) THEN Zero ELSE value

\* without the test value < 1
YearsOrOne_NotFloored(value) == IF isNaN(value) THEN 1 ELSE ToInt(value)

\* isNaN(value) || value < 1 ? 1 : value
YearsOrOne(value) == IF isNaN(value) \/ Less(value, One) THEN 1 ELSE ToInt(value)

handlePrincipalChange(raw) ==
    /\ principal' = NumberOrZero(IF raw = <<>> THEN Zero ELSE parseFloat(raw))
    /\ UNCHANGED <<monthlyContribution, annualRate, years>>
    /\ Render
    /\ InputEffects

handleMonthlyContributionChange(raw) ==
    /\ monthlyContribution' = NumberOrZero(IF raw = <<>> THEN Zero ELSE parseFloat(raw))
    /\ UNCHANGED <<principal, annualRate, years>>
    /\ Render
    /\ InputEffects

handleAnnualRateChange(raw) ==
    /\ annualRate' = NumberOrZero(IF raw = <<>> THEN Zero ELSE parseFloat(raw))
    /\ UNCHANGED <<principal, monthlyContribution, years>>
    /\ Render
    /\ InputEffects

handleYearsChange(raw) ==
    /\ years' = YearsOrOne(IF raw = <<>> THEN Zero ELSE parseInt(raw))
    /\ UNCHANGED <<principal, monthlyContribution, annualRate>>
    /\ Render
    /\ InputEffects

handleSliderChange(name, value) ==
    /\ principal' = IF name = "principal" THEN value ELSE principal
    /\ monthlyContribution' =
           IF name = "monthlyContribution" THEN value ELSE monthlyContribution
    /\ annualRate' = IF name = "annualRate" THEN value ELSE annualRate
    /\ years' = IF name = "years" THEN value ELSE years
    /\ Render
    /\ InputEffects

\* the toggle group hands over null when the selected button is clicked again
handleChartTypeChange(newChartType) ==
    /\ chartType' = IF newChartType # "null" THEN newChartType ELSE chartType
    /\ UNCHANGED <<principal, monthlyContribution, annualRate, years, yearlyData, page,
                   currentPage, itemsPerPage, isMobile, isTablet, errors,
                   allValuesFilled, isInteracting, shouldPulse, interactionTimer,
                   localStorage, storageEventSeen, sinceChange>>
    /\ UNCHANGED componentVars

\* Math.ceil(yearlyData.length / itemsPerPage)
totalPages == (Len(yearlyData) + itemsPerPage - 1) \div itemsPerPage

\* the paging buttons are rendered on mobile and tablet screens only, and a
\* button is disabled when there is no page in its direction
handleNextPage ==
    /\ isMobile \/ isTablet
    /\ ~(currentPage >= totalPages)
    /\ currentPage' = IF currentPage + 1 < totalPages THEN currentPage + 1 ELSE totalPages
    /\ UNCHANGED <<principal, monthlyContribution, annualRate, years, yearlyData, page,
                   chartType, itemsPerPage, isMobile, isTablet, errors,
                   allValuesFilled, isInteracting, shouldPulse, interactionTimer,
                   localStorage, storageEventSeen, sinceChange>>
    /\ UNCHANGED componentVars

handlePrevPage ==
    /\ isMobile \/ isTablet
    /\ ~(currentPage <= 1)
    /\ currentPage' = IF currentPage - 1 > 1 THEN currentPage - 1 ELSE 1
    /\ UNCHANGED <<principal, monthlyContribution, annualRate, years, yearlyData, page,
                   chartType, itemsPerPage, isMobile, isTablet, errors,
                   allValuesFilled, isInteracting, shouldPulse, interactionTimer,
                   localStorage, storageEventSeen, sinceChange>>
    /\ UNCHANGED componentVars

\* yearlyData.slice(startIndex, startIndex + itemsPerPage)
slice(arr, startIndex, endIndex) ==
    SubSeq(arr, startIndex + 1, IF endIndex < Len(arr) THEN endIndex ELSE Len(arr))

\* paginatedData of a render that has the given data, screen, currentPage and
\* itemsPerPage
paginatedDataOf(data, mobile, tablet, pageNumber, items) ==
    IF ~mobile /\ ~tablet THEN data
    ELSE slice(data, (pageNumber - 1) * items, (pageNumber - 1) * items + items)

paginatedData == paginatedDataOf(yearlyData, isMobile, isTablet, currentPage, itemsPerPage)

\* as MediaQueryChange, with the table left on the page it was on
MediaQueryChange_PageKept(mobile, tablet) ==
    /\ <<mobile, tablet>> # <<isMobile, isTablet>>
    /\ isMobile' = mobile
    /\ isTablet' = tablet
    /\ itemsPerPage' = ItemsForScreen(mobile, tablet, Len(yearlyData))
    /\ UNCHANGED <<principal, monthlyContribution, annualRate, years, yearlyData, page,
                   chartType, currentPage, errors, allValuesFilled, isInteracting,
                   shouldPulse, interactionTimer, localStorage, storageEventSeen,
                   sinceChange>>
    /\ UNCHANGED componentVars

\* the window is resized across a breakpoint: useMediaQuery reports the new
\* screen, the page renders, and the effect that depends on isMobile and
\* isTablet sets itemsPerPage and returns to the first page
MediaQueryChange(mobile, tablet) ==
    /\ <<mobile, tablet>> # <<isMobile, isTablet>>
    /\ isMobile' = mobile
    /\ isTablet' = tablet
    /\ itemsPerPage' = ItemsForScreen(mobile, tablet, Len(yearlyData))
    /\ currentPage' = 1
    /\ UNCHANGED <<principal, monthlyContribution, annualRate, years, yearlyData, page,
                   chartType, errors, allValuesFilled, isInteracting, shouldPulse,
                   interactionTimer, localStorage, storageEventSeen, sinceChange>>
    /\ UNCHANGED componentVars

\* the timeout set by the persisting effect fires: setIsInteracting(false),
\* and the pulse effect follows
TimerFires ==
    /\ interactionTimer = <<0>>
    /\ isInteracting' = FALSE
    /\ interactionTimer' = <<>>
    /\ UNCHANGED allValuesFilled
    /\ PulseEffect
    /\ UNCHANGED <<principal, monthlyContribution, annualRate, years, yearlyData, page,
                   chartType, currentPage, itemsPerPage, isMobile, isTablet, errors,
                   localStorage, storageEventSeen, sinceChange>>
    /\ UNCHANGED componentVars

\* how many milliseconds pass in one step of the clock
TickMs == 500

\* time passes, by TickMs; a timeout that is due fires before more time passes
Tick ==
    /\ interactionTimer # <<0>>
    /\ sinceChange < TimerDelay
    /\ sinceChange' =
           IF sinceChange + TickMs < TimerDelay THEN sinceChange + TickMs ELSE TimerDelay
    /\ interactionTimer' =
           IF interactionTimer = <<>> THEN <<>>
           ELSE IF interactionTimer[1] > TickMs THEN <<interactionTimer[1] - TickMs>>
           ELSE <<0>>
    /\ UNCHANGED <<principal, monthlyContribution, annualRate, years, yearlyData, page,
                   chartType, currentPage, itemsPerPage, isMobile, isTablet, errors,
                   allValuesFilled, isInteracting, shouldPulse, localStorage,
                   storageEventSeen>>
    /\ UNCHANGED componentVars

\* the page after it has mounted on a screen: the initial state, its render,
\* and the effects of the mount
Mounted(mobile, tablet) ==
    /\ page = "annual"
    /\ principal = Zero
    /\ monthlyContribution = Zero
    /\ annualRate = Zero
    /\ years = 1
    /\ yearlyData = calculateYearlyData(principal, monthlyContribution, annualRate, years)
    /\ chartType = "line"
    /\ isMobile = mobile
    /\ isTablet = tablet
    /\ itemsPerPage = ItemsForScreen(mobile, tablet, Len(yearlyData))
    /\ currentPage = 1
    /\ errors = newErrors(principal, monthlyContribution, annualRate, years)
    /\ allValuesFilled = allFilled(monthlyContribution, annualRate, years)
    /\ isInteracting = FALSE
    /\ interactionTimer = <<>>
    /\ shouldPulse = FALSE
    /\ localStorage =
           StoredInputs(EmptyStorage, principal, monthlyContribution, annualRate, years)
    /\ storageEventSeen =
           DispatchStorageEvent(EmptyStorage, principal, monthlyContribution,
                                annualRate, years)
    /\ sinceChange = 0

\* the page on a desktop screen
Init == Mounted(FALSE, FALSE) /\ ComponentsAtRest

\* the events of typing and of moving a slider
Next ==
    \/ \E raw \in PrincipalTexts : handlePrincipalChange(raw)
    \/ \E raw \in ContributionTexts : handleMonthlyContributionChange(raw)
    \/ \E raw \in RateTexts : handleAnnualRateChange(raw)
    \/ \E raw \in YearsTexts : handleYearsChange(raw)
    \/ \E value \in RateSliderValues : handleSliderChange("annualRate", value)
    \/ \E value \in YearsSliderValues : handleSliderChange("years", value)

Spec == Init /\ [][Next]_vars

(***************************************************************************)
(* The monthly calculator page: the same four inputs, the projection with  *)
(* the contribution taken twelve times a year, the validation flags and    *)
(* the chart type.  It has no table pages, no stored values and no pulse.  *)
(***************************************************************************)
RenderMonthly ==
    yearlyData' =
        calculateYearlyDataMonthly(principal', monthlyContribution', annualRate', years')

\* the three fixed rates of the page's reference values
MonthlyReferenceRates == <<7, 20, 30>>

\* whether arr[i] is an element of the array arr
HasIndex(arr, i) == i >= 0 /\ i < Len(arr)

\* renderReferenceValues reads calculateYearlyData(...)[years].endBalance for
\* each of the three rates: the render completes when each of them is there
ReferenceValuesRenderMonthly ==
    \A i \in 1..3 :
        HasIndex(calculateYearlyDataMonthly(principal, monthlyContribution,
                                            Int2Num(MonthlyReferenceRates[i]), years),
                 years)

\* the upper limit of the monthly contribution in this page's validation
MaxContributionMonthly == 1000000

\* Input validation
newErrorsMonthly(p, c, r, y) ==
    RangeFlags([principal |-> p, monthlyContribution |-> c, annualRate |-> r],
               [principal |-> MaxAmount, monthlyContribution |-> MaxContributionMonthly,
                annualRate |-> MaxRate])
        @@ [years |-> y < 1 \/ y > MaxYears]

InputEffectsMonthly ==
    /\ errors' =
           IF <<principal', monthlyContribution', annualRate', years'>> # inputs
           THEN newErrorsMonthly(principal', monthlyContribution', annualRate', years')
           ELSE errors
    /\ UNCHANGED <<page, chartType, currentPage, itemsPerPage, isMobile, isTablet,
                   allValuesFilled, isInteracting, shouldPulse, interactionTimer,
                   localStorage, storageEventSeen, sinceChange>>
    /\ UNCHANGED componentVars

\* isNaN(value) ? 1 : value
YearsOrOneMonthly(value) == IF isNaN(value) THEN 1 ELSE ToInt(value)

handlePrincipalChangeMonthly(raw) ==
    /\ principal' = NumberOrZero(parseFloat(raw))
    /\ UNCHANGED <<monthlyContribution, annualRate, years>>
    /\ RenderMonthly
    /\ InputEffectsMonthly

handleMonthlyContributionChangeMonthly(raw) ==
    /\ monthlyContribution' = NumberOrZero(parseFloat(raw))
    /\ UNCHANGED <<principal, annualRate, years>>
    /\ RenderMonthly
    /\ InputEffectsMonthly

handleAnnualRateChangeMonthly(raw) ==
    /\ annualRate' = NumberOrZero(parseFloat(raw))
    /\ UNCHANGED <<principal, monthlyContribution, years>>
    /\ RenderMonthly
    /\ InputEffectsMonthly

handleYearsChangeMonthly(raw) ==
    /\ years' = YearsOrOneMonthly(parseInt(raw))
    /\ UNCHANGED <<principal, monthlyContribution, annualRate>>
    /\ RenderMonthly
    /\ InputEffectsMonthly

handleSliderChangeMonthly(name, value) ==
    /\ principal' = IF name = "principal" THEN value ELSE principal
    /\ monthlyContribution' =
           IF name = "monthlyContribution" THEN value ELSE monthlyContribution
    /\ annualRate' = IF name = "annualRate" THEN value ELSE annualRate
    /\ years' = IF name = "years" THEN value ELSE years
    /\ RenderMonthly
    /\ InputEffectsMonthly

\* the monthly page after it has mounted: 0, 2000 a month, 7 percent, 5 years
MountedMonthly ==
    /\ page = "monthly"
    /\ principal = Zero
    /\ monthlyContribution = Int2Num(2000)
    /\ annualRate = Int2Num(7)
    /\ years = 5
    /\ yearlyData =
           calculateYearlyDataMonthly(principal, monthlyContribution, annualRate, years)
    /\ chartType = "line"
    /\ errors = newErrorsMonthly(principal, monthlyContribution, annualRate, years)
    /\ isMobile = FALSE
    /\ isTablet = FALSE
    /\ itemsPerPage = MobileItems
    /\ currentPage = 1
    /\ allValuesFilled = FALSE
    /\ isInteracting = FALSE
    /\ interactionTimer = <<>>
    /\ shouldPulse = FALSE
    /\ localStorage = EmptyStorage
    /\ storageEventSeen = EmptyStorage
    /\ sinceChange = 0

(***************************************************************************)
(* Either page, with every event it reacts to, on a smaller set of inputs. *)
(***************************************************************************)
PagePrincipalTexts == { <<>>, <<"-">>, <<"-", "5">> }

PageContributionTexts == { <<>>, <<"-", "5">>, <<"5", "0", "0", "0">> }

PageRateTexts == { <<>>, <<".">>, <<"6", "0">> }

PageYearsTexts == { <<>>, <<"a">>, <<"-", "3">>, <<"4">> }

ChartTypes == {"line", "stacked", "null"}

\* the sliders of the monthly page for the two amounts
PrincipalSliderMax     == 1000000
PrincipalSliderStep    == 10000
ContributionSliderMax  == 50000
ContributionSliderStep == 500

\* how many positions of a slider beyond its first are explored
PageSliderBound == 1

PrincipalSliderValues ==
    { Int2Num(k * PrincipalSliderStep) :
        k \in { j \in 0..PageSliderBound : j * PrincipalSliderStep <= PrincipalSliderMax } }

ContributionSliderValues ==
    { Int2Num(k * ContributionSliderStep) :
        k \in { j \in 0..PageSliderBound :
                  j * ContributionSliderStep <= ContributionSliderMax } }

PageRateSliderValues ==
    { Mul(Int2Num(k), Dec(5, 1)) :
        k \in { j \in 0..PageSliderBound : j <= 2 * RateSliderMax } }

PageYearsSliderValues ==
    { y \in YearsSliderMin..YearsSliderMax : y <= YearsSliderMin + PageSliderBound }

\* a screen: desktop, tablet or mobile (a mobile screen is below both widths)
Screens == { <<FALSE, FALSE>>, <<FALSE, TRUE>>, <<TRUE, TRUE>> }

PagesInit ==
    /\ \/ \E screen \in Screens : Mounted(screen[1], screen[2])
       \/ MountedMonthly
    /\ ComponentsAtRest

\* the annual page is the one on the screen
OnAnnual == page = "annual"

\* the monthly page is on the screen and its last render has completed: a
\* page whose render has thrown takes no further event
OnMonthly == page = "monthly" /\ ReferenceValuesRenderMonthly

PagesNext ==
    \/ OnAnnual /\ \E raw \in PagePrincipalTexts : handlePrincipalChange(raw)
    \/ OnAnnual /\ \E raw \in PageContributionTexts : handleMonthlyContributionChange(raw)
    \/ OnAnnual /\ \E raw \in PageRateTexts : handleAnnualRateChange(raw)
    \/ OnAnnual /\ \E raw \in PageYearsTexts : handleYearsChange(raw)
    \/ OnAnnual /\ \E value \in PageRateSliderValues :
                       handleSliderChange("annualRate", value)
    \/ OnAnnual /\ \E value \in PageYearsSliderValues : handleSliderChange("years", value)
    \/ OnAnnual /\ \E type \in ChartTypes : handleChartTypeChange(type)
    \/ OnAnnual /\ handleNextPage
    \/ OnAnnual /\ handlePrevPage
    \/ OnAnnual /\ \E screen \in Screens : MediaQueryChange(screen[1], screen[2])
    \/ OnAnnual /\ TimerFires
    \/ OnAnnual /\ Tick
    \/ OnMonthly /\ \E raw \in PagePrincipalTexts : handlePrincipalChangeMonthly(raw)
    \/ OnMonthly /\ \E raw \in PageContributionTexts :
                        handleMonthlyContributionChangeMonthly(raw)
    \/ OnMonthly /\ \E raw \in PageRateTexts : handleAnnualRateChangeMonthly(raw)
    \/ OnMonthly /\ \E raw \in PageYearsTexts : handleYearsChangeMonthly(raw)
    \/ OnMonthly /\ \E value \in PrincipalSliderValues :
                        handleSliderChangeMonthly("principal", value)
    \/ OnMonthly /\ \E value \in ContributionSliderValues :
                        handleSliderChangeMonthly("monthlyContribution", value)
    \/ OnMonthly /\ \E value \in PageRateSliderValues :
                        handleSliderChangeMonthly("annualRate", value)
    \/ OnMonthly /\ \E value \in PageYearsSliderValues :
                        handleSliderChangeMonthly("years", value)
    \/ OnMonthly /\ \E type \in ChartTypes : handleChartTypeChange(type)

PagesSpec == PagesInit /\ [][PagesNext]_vars

\* the timeout fires when it is due, and time does not stand still
PagesLiveSpec == PagesSpec /\ WF_vars(TimerFires) /\ WF_vars(Tick)

(***************************************************************************)
(* The properties.  The monthly calculator is projected from the same      *)
(* inputs as the page's own projection.                                    *)
(***************************************************************************)
yearlyDataMonthly ==
    calculateYearlyDataMonthly(principal, monthlyContribution, annualRate, years)

\* the inputs the page does not flag as below their range
NonNegativeInputs ==
    /\ Leq(Zero, principal)
    /\ Leq(Zero, monthlyContribution)
    /\ Leq(Zero, annualRate)
    /\ years >= 1

\* data has y + 1 snapshots and the i-th is the one of year i
DenseYears(data, y) ==
    /\ Len(data) = y + 1
    /\ \A i \in 0..y : At(data, i).year = i

\* C1: for principal, contribution and rate >= 0 and years >= 1, the
\* projection of either calculator has exactly years + 1 snapshots, and the
\* i-th snapshot is the one of year i, from year 0 up without gap or repeat.
C1_YearsPlusOneSnapshots ==
    NonNegativeInputs =>
        /\ DenseYears(yearlyData, years)
        /\ DenseYears(yearlyDataMonthly, years)

C1_Witness ==
    /\ NonNegativeInputs
    /\ years = 20
    /\ monthlyContribution = Int2Num(5000)
    /\ Len(yearlyData) = 21
    /\ At(yearlyData, 20).year = 20

\* C2: every snapshot of a year >= 1 has endBalance = startBalance +
\* contribution + interest; the snapshot of year 0 has startBalance 0,
\* interest 0, and endBalance, contribution and totalContributed all equal to
\* the principal.
C2_BalanceInvariant ==
    /\ At(yearlyData, 0).startBalance = Zero
    /\ At(yearlyData, 0).interest = Zero
    /\ At(yearlyData, 0).endBalance = principal
    /\ At(yearlyData, 0).contribution = principal
    /\ At(yearlyData, 0).totalContributed = principal
    /\ \A i \in 1..(Len(yearlyData) - 1) :
          At(yearlyData, i).endBalance =
              Add(Add(At(yearlyData, i).startBalance, At(yearlyData, i).contribution),
                  At(yearlyData, i).interest)

C2_Witness ==
    /\ principal = Int2Num(10000)
    /\ monthlyContribution = Int2Num(5000)
    /\ annualRate = Dec(45, 1)
    /\ years = 2
    /\ At(yearlyData, 2).interest = Dec(930375, 3)
    /\ At(yearlyData, 2).endBalance = Dec(21605375, 3)

\* each year starts from the balance the year before ended with, and its
\* interest and end balance are those of start + contribution at r percent
ContributionBeforeInterest(data, r) ==
    \A y \in 1..(Len(data) - 1) :
        /\ At(data, y).startBalance = At(data, y - 1).endBalance
        /\ At(data, y).interest =
               Mul(Add(At(data, y).startBalance, At(data, y).contribution),
                   Div(r, Hundred))
        /\ At(data, y).endBalance =
               Mul(Add(At(data, y).startBalance, At(data, y).contribution),
                   Add(One, Div(r, Hundred)))

\* C3: in either calculator, for every year y >= 1, startBalance[y] =
\* endBalance[y-1], interest[y] = (startBalance[y] + contribution[y]) * rate/100
\* and endBalance[y] = (startBalance[y] + contribution[y]) * (1 + rate/100):
\* the year's contribution earns the year's interest.
C3_ContributionBeforeInterest ==
    /\ ContributionBeforeInterest(yearlyData, annualRate)
    /\ ContributionBeforeInterest(yearlyDataMonthly, annualRate)

C3_Witness ==
    /\ principal = Int2Num(10000)
    /\ monthlyContribution = Int2Num(5000)
    /\ annualRate = Int2Num(10)
    /\ years = 3
    /\ At(yearlyData, 1).interest = Int2Num(1500)
    /\ At(yearlyData, 2).startBalance = Int2Num(16500)

\* the sum of the contributions of the years lo..hi of data
RECURSIVE SumContributions(_, _, _)
SumContributions(data, lo, hi) ==
    IF lo > hi THEN Zero
    ELSE IF lo = hi THEN At(data, lo).contribution
    ELSE Add(SumContributions(data, lo, (lo + hi) \div 2),
             SumContributions(data, (lo + hi) \div 2 + 1, hi))

\* C4: totalContributed[y] = principal + contribution[1] + ... +
\* contribution[y] for every year y of the projection, and totalContributed
\* never decreases from one year to the next when the contribution is >= 0.
C4_TotalContributedRunningSum ==
    /\ \A y \in 0..(Len(yearlyData) - 1) :
          At(yearlyData, y).totalContributed =
              Add(principal, SumContributions(yearlyData, 1, y))
    /\ Leq(Zero, monthlyContribution) =>
          \A y \in 1..(Len(yearlyData) - 1) :
              Leq(At(yearlyData, y - 1).totalContributed,
                  At(yearlyData, y).totalContributed)

C4_Witness ==
    /\ principal = Int2Num(10000)
    /\ monthlyContribution = Int2Num(5000)
    /\ years = 5
    /\ annualRate = Int2Num(8)
    /\ At(yearlyData, 5).totalContributed = Int2Num(35000)

\* C5: at an annual rate of 0 every snapshot has interest 0 and endBalance =
\* totalContributed, whatever the principal, contribution and years; and
\* principal 10000, contribution 0, rate 0, years 5 gives 6 snapshots, each
\* with endBalance 10000.
C5_ZeroRate ==
    annualRate = Zero =>
        /\ \A y \in 0..(Len(yearlyData) - 1) :
              /\ At(yearlyData, y).interest = Zero
              /\ At(yearlyData, y).endBalance = At(yearlyData, y).totalContributed
        /\ (principal = Int2Num(10000) /\ monthlyContribution = Zero /\ years = 5) =>
              /\ Len(yearlyData) = 6
              /\ \A y \in 0..5 : At(yearlyData, y).endBalance = Int2Num(10000)

C5_Witness ==
    /\ annualRate = Zero
    /\ principal = Int2Num(10000)
    /\ monthlyContribution = Zero
    /\ years = 5
    /\ Len(yearlyData) = 6
    /\ At(yearlyData, 5).endBalance = Int2Num(10000)

Sq(x) == Mul(x, x)

\* x to the power n, for n >= 0
RECURSIVE Pow(_, _)
Pow(x, n) ==
    IF n = 0 THEN One
    ELSE IF n % 2 = 0 THEN Sq(Pow(x, n \div 2))
    ELSE Mul(x, Sq(Pow(x, n \div 2)))

\* C6: with a contribution of 0 and principal P, the snapshot of every year n
\* from 0 to years has endBalance = P * (1 + rate/100)^n.
C6_PrincipalCompounds ==
    monthlyContribution = Zero =>
        \A n \in 0..years :
            At(yearlyData, n).endBalance =
                Mul(principal, Pow(Add(One, Div(annualRate, Hundred)), n))

C6_Witness ==
    /\ monthlyContribution = Zero
    /\ principal = Int2Num(10000)
    /\ annualRate = Int2Num(10)
    /\ years = 3
    /\ At(yearlyData, 3).endBalance = Int2Num(13310)

\* the last snapshot of the projection
LastSnapshot == yearlyData[Len(yearlyData)]

\* the summary figures are those of the last snapshot, and the chart's final
\* return is the page's interestPercentage
AggregatesFromLastSnapshot ==
    /\ finalBalance = LastSnapshot.endBalance
    /\ totalContributed = LastSnapshot.totalContributed
    /\ totalInterest = Sub(LastSnapshot.endBalance, LastSnapshot.totalContributed)
    /\ finalReturnPercentage = interestPercentage

\* totalInterest / totalContributed * 100, from the last snapshot
InterestShare ==
    Mul(Div(Sub(LastSnapshot.endBalance, LastSnapshot.totalContributed),
            LastSnapshot.totalContributed),
        Hundred)

\* C7 as stated: the aggregates come from the last snapshot, and
\* interestPercentage is totalInterest / totalContributed * 100, and 0 when
\* totalContributed = 0.
C7_AsStated ==
    /\ AggregatesFromLastSnapshot
    /\ interestPercentage =
           IF LastSnapshot.totalContributed = Zero THEN Zero ELSE InterestShare

\* C7: finalBalance = last.endBalance, totalContributed =
\* last.totalContributed, totalInterest = finalBalance - totalContributed, and
\* interestPercentage (like the chart's final return) is totalInterest /
\* totalContributed * 100 when totalContributed > 0, and 0 whenever
\* totalContributed <= 0: there is no division by zero.
C7_Aggregates ==
    /\ AggregatesFromLastSnapshot
    /\ interestPercentage =
           IF Less(Zero, LastSnapshot.totalContributed) THEN InterestShare ELSE Zero

C7_Witness ==
    /\ principal = Int2Num(10000)
    /\ monthlyContribution = Zero
    /\ annualRate = Int2Num(10)
    /\ years = 2
    /\ totalInterest = Int2Num(2100)
    /\ interestPercentage = Int2Num(21)

\* the balance the home page shows for 5.000 kr per month over 20 years
HomeDisplayedValue == 13441535

\* C8: principal 0, 60000 contributed per year, 20 percent, 20 years: the
\* last endBalance is 13,441,535 and a fraction, the figure of the home
\* page; the monthly calculator has the same from 5000 per month.
C8_HomePageFigure ==
    (/\ principal = Zero
     /\ monthlyContribution = Int2Num(60000)
     /\ annualRate = Int2Num(20)
     /\ years = 20) =>
        /\ Leq(Int2Num(HomeDisplayedValue), At(yearlyData, 20).endBalance)
        /\ Less(At(yearlyData, 20).endBalance, Int2Num(HomeDisplayedValue + 1))
        /\ At(calculateYearlyDataMonthly(Zero, Int2Num(5000), Int2Num(20), 20),
              20).endBalance = At(yearlyData, 20).endBalance

C8_Witness ==
    /\ principal = Zero
    /\ monthlyContribution = Int2Num(60000)
    /\ annualRate = Int2Num(20)
    /\ years = 20
    /\ Len(yearlyData) = 21
    /\ At(yearlyData, 20).totalContributed = Int2Num(1200000)

\* the gaps of the step function at rate r
StepGaps(r) ==
    IF ~Less(r, Int2Num(12)) THEN <<Int2Num(8), Int2Num(4)>>
    ELSE IF ~Less(r, Int2Num(8)) THEN <<Int2Num(6), Int2Num(3)>>
    ELSE IF ~Less(r, Int2Num(5)) THEN <<Int2Num(3), Dec(15, 1)>>
    ELSE << IF Less(One, Mul(Dec(4, 1), r)) THEN Mul(Dec(4, 1), r) ELSE One,
            IF Less(Dec(5, 1), Mul(Dec(2, 1), r)) THEN Mul(Dec(2, 1), r) ELSE Dec(5, 1) >>

GapsOfPage == calculateDynamicGaps(annualRate)

GapsOfChart == calculateDynamicGapsChart(annualRate)

\* C9: calculateDynamicGaps, of the page and of the chart, gives (8, 4) for
\* rate >= 12, (6, 3) for 8 <= rate < 12, (3, 1.5) for 5 <= rate < 8 and
\* (max(1, 0.4 * rate), max(0.5, 0.2 * rate)) for rate < 5; rates 20, 10, 6
\* and 2 give (8, 4), (6, 3), (3, 1.5) and (1, 0.5).
C9_GapsStepFunction ==
    /\ <<GapsOfPage.gap1, GapsOfPage.gap2>> = StepGaps(annualRate)
    /\ <<GapsOfChart.gap1, GapsOfChart.gap2>> = StepGaps(annualRate)
    /\ annualRate = Int2Num(20) =>
          <<GapsOfPage.gap1, GapsOfPage.gap2>> = <<Int2Num(8), Int2Num(4)>>
    /\ annualRate = Int2Num(10) =>
          <<GapsOfPage.gap1, GapsOfPage.gap2>> = <<Int2Num(6), Int2Num(3)>>
    /\ annualRate = Int2Num(6) =>
          <<GapsOfPage.gap1, GapsOfPage.gap2>> = <<Int2Num(3), Dec(15, 1)>>
    /\ annualRate = Int2Num(2) =>
          <<GapsOfPage.gap1, GapsOfPage.gap2>> = <<One, Dec(5, 1)>>

C9_Witness ==
    /\ annualRate = Int2Num(12)
    /\ GapsOfPage = [gap1 |-> Int2Num(8), gap2 |-> Int2Num(4)]
    /\ GapsOfChart = [gap1 |-> Int2Num(8), gap2 |-> Int2Num(4)]

\* the comparison rates at base rate r with the gaps g: the two lower ones
\* floored at 0.1, the upper one 3 above
FlooredRates(r, g) ==
    << IF Less(Dec(1, 1), Sub(r, g.gap1)) THEN Sub(r, g.gap1) ELSE Dec(1, 1),
       IF Less(Dec(1, 1), Sub(r, g.gap2)) THEN Sub(r, g.gap2) ELSE Dec(1, 1),
       Add(r, Int2Num(3)) >>

\* C10: for a base rate >= 0 the three comparison rates, of the page and of
\* the chart, are max(0.1, rate - gap1), max(0.1, rate - gap2) and rate + 3,
\* and none of them is negative.
C10_ComparisonRatesNotNegative ==
    Leq(Zero, annualRate) =>
        /\ refRates(annualRate) = FlooredRates(annualRate, GapsOfPage)
        /\ refRatesChart(annualRate) = FlooredRates(annualRate, GapsOfChart)
        /\ \A i \in 1..3 :
              /\ ~refRates(annualRate)[i].neg
              /\ ~refRatesChart(annualRate)[i].neg

C10_Witness ==
    /\ annualRate = Dec(5, 1)
    /\ refRates(annualRate) = <<Dec(1, 1), Dec(1, 1), Dec(35, 1)>>

(***************************************************************************)
(* The page state: inputs, validation, memo, storage and pulse.            *)
(***************************************************************************)
\* C11: in the annual page years is an integer and at least 1 in every
\* reachable state: it starts at 1, the text handler replaces an unparseable
\* value or one below 1 by 1, and the slider gives values from 1 to 50.
C11_YearsAtLeastOne == page = "annual" => years \in Int /\ years >= 1

\* the years typed as "20": beyond the slider values explored
C11_Witness == page = "annual" /\ years = 20 /\ Len(yearlyData) = 21

LastReferencePoints ==
    [i \in 1..3 |-> At(refData(yearlyData, annualRate)[i], totalYears(yearlyData))]

\* C18: the reference cards and the chart's reference lines agree for every
\* input state: they use the same three comparison rates, and the last point
\* of each line, computed by calculateWithRate from yearlyData[0].endBalance
\* and yearlyData[1].contribution / 12, is the card's balance for that rate.
C18_CardsAgreeWithChart ==
    /\ refRatesChart(annualRate) = refRates(annualRate)
    /\ LastReferencePoints = refBalances(principal, monthlyContribution, annualRate, years)

\* 5000 a year for five years at a rate above 0: each line has six points and
\* ends above what was paid in
C18_Witness ==
    /\ monthlyContribution = Int2Num(5000)
    /\ years = 5
    /\ Less(Zero, annualRate)
    /\ \A i \in 1..3 : Len(refData(yearlyData, annualRate)[i]) = 6
    /\ \A i \in 1..3 : Less(Int2Num(25000), LastReferencePoints[i])

\* a text that is empty or does not parse to a number
NoFloat(raw) == raw = <<>> \/ isNaN(parseFloat(raw))

NoInt(raw) == raw = <<>> \/ isNaN(parseInt(raw))

\* a change of a text field, on the page that is on the screen
PrincipalTextChange(raw) ==
    \/ OnAnnual /\ handlePrincipalChange(raw)
    \/ handlePrincipalChangeMonthly(raw) /\ OnMonthly

ContributionTextChange(raw) ==
    \/ OnAnnual /\ handleMonthlyContributionChange(raw)
    \/ handleMonthlyContributionChangeMonthly(raw) /\ OnMonthly

RateTextChange(raw) ==
    \/ OnAnnual /\ handleAnnualRateChange(raw)
    \/ handleAnnualRateChangeMonthly(raw) /\ OnMonthly

YearsTextChange(raw) ==
    \/ OnAnnual /\ handleYearsChange(raw)
    \/ handleYearsChangeMonthly(raw) /\ OnMonthly

\* C12: a change of a text field whose text is empty or does not parse to a
\* number is not rejected: on either page it sets principal, contribution or
\* rate to 0, and years to 1, and leaves the other three inputs unchanged.
\* (Each line reads: the step has this outcome, or it is no such change.)
C12_UnparseableTextCoerced ==
    [][ /\ \A raw \in { t \in PagePrincipalTexts : NoFloat(t) } :
               \/ principal' = Zero /\ UNCHANGED <<monthlyContribution, annualRate, years>>
               \/ ~PrincipalTextChange(raw)
        /\ \A raw \in { t \in PageContributionTexts : NoFloat(t) } :
               \/ monthlyContribution' = Zero /\ UNCHANGED <<principal, annualRate, years>>
               \/ ~ContributionTextChange(raw)
        /\ \A raw \in { t \in PageRateTexts : NoFloat(t) } :
               \/ annualRate' = Zero /\ UNCHANGED <<principal, monthlyContribution, years>>
               \/ ~RateTextChange(raw)
        /\ \A raw \in { t \in PageYearsTexts : NoInt(t) } :
               \/ years' = 1 /\ UNCHANGED <<principal, monthlyContribution, annualRate>>
               \/ ~YearsTextChange(raw)
      ]_vars

\* the monthly page after its contribution field was emptied: 2000 became 0,
\* and 0, 7 percent and 5 years are as they were
C12_Witness ==
    /\ page = "monthly"
    /\ monthlyContribution = Zero
    /\ principal = Zero
    /\ annualRate = Int2Num(7)
    /\ years = 5
    /\ <<>> \in { t \in PageContributionTexts : NoFloat(t) }
    /\ NoFloat(<<"-">>) /\ NoFloat(<<".">>) /\ NoInt(<<"a">>)

\* lo <= x <= hi
InRange(x, lo, hi) == Leq(lo, x) /\ Leq(x, hi)

Projection ==
    IF page = "annual"
    THEN calculateYearlyData(principal, monthlyContribution, annualRate, years)
    ELSE calculateYearlyDataMonthly(principal, monthlyContribution, annualRate, years)

\* C14: in every render of either page yearlyData is calculateYearlyData of
\* that render's principal, contribution, annualRate and years, so the memo
\* never holds a sequence computed for older inputs; and a step that changes
\* only chartType or the table page leaves yearlyData unchanged.
C14_MemoNeverStale ==
    /\ [](yearlyData = Projection)
    /\ [][(chartType' # chartType \/ currentPage' # currentPage) /\ inputs' = inputs
              => yearlyData' = yearlyData]_vars

\* the stacked chart and the second table page of a projection of four years
\* at 60 percent on a mobile screen
C14_Witness ==
    /\ page = "annual"
    /\ chartType = "stacked"
    /\ currentPage = 2
    /\ itemsPerPage = 3
    /\ years = 4
    /\ annualRate = Int2Num(60)
    /\ monthlyContribution = Int2Num(5000)
    /\ At(yearlyData, 1).endBalance = Int2Num(8000)

\* renderReferenceValues of the annual page reads
\* calculateYearlyData(...)[years].endBalance for each of its three rates
ReferenceValuesRender ==
    \A i \in 1..3 :
        HasIndex(calculateYearlyData(principal, monthlyContribution,
                                     refRates(annualRate)[i], years),
                 years)

\* C15: in each calculator variant, for every input state reachable through
\* the text fields and sliders, computing the projection and the reference
\* values does not fail: the snapshot calculateYearlyData(...)[years] that
\* renderReferenceValues reads exists.
C15_AsStated ==
    /\ page = "annual" => ReferenceValuesRender
    /\ page = "monthly" => ReferenceValuesRenderMonthly

\* the monthly page after "-3" was typed into its years field: the
\* projection has the snapshot of year 0 alone, and no element [-3]
C15_FailingState ==
    /\ page = "monthly"
    /\ years = -3
    /\ Len(yearlyData) = 1
    /\ ~HasIndex(yearlyData, years)
    /\ ~ReferenceValuesRenderMonthly

\* C16: after every input change, once the persisting effect has run, the four
\* stored keys hold the current values of the four inputs (as the texts that
\* toString gives, which parse back to the inputs), and the 'storage' event
\* is dispatched after all four writes: a listener that reads the store when
\* notified finds the latest complete tuple.
C16_StoredInputsCurrent ==
    page = "annual" =>
        /\ localStorage.calculator_principal = toString(principal)
        /\ localStorage.calculator_monthlyContribution = toString(monthlyContribution)
        /\ localStorage.calculator_annualRate = toString(annualRate)
        /\ localStorage.calculator_years = toString(Int2Num(years))
        /\ parseFloat(localStorage.calculator_principal) = principal
        /\ parseFloat(localStorage.calculator_monthlyContribution) = monthlyContribution
        /\ parseFloat(localStorage.calculator_annualRate) = annualRate
        /\ ToInt(parseInt(localStorage.calculator_years)) = years
        /\ storageEventSeen = localStorage

\* -5, 5000 a year, 0.5 percent and 4 years, stored and seen by a listener
C16_Witness ==
    /\ page = "annual"
    /\ localStorage.calculator_principal = <<"-", "5">>
    /\ localStorage.calculator_monthlyContribution = <<"5", "0", "0", "0">>
    /\ localStorage.calculator_annualRate = <<"0", ".", "5">>
    /\ localStorage.calculator_years = <<"4">>
    /\ storageEventSeen.calculator_years = <<"4">>
    /\ years = 4

\* contribution > 0, annualRate > 0 and years > 1
FilledInputs(c, r, y) == Less(Zero, c) /\ Less(Zero, r) /\ y > 1

Filled == FilledInputs(monthlyContribution, annualRate, years)

\* shouldPulse is true only if the inputs are filled and none of them has
\* changed during the preceding second
PulseOnlyWhenFilledAndQuiet == shouldPulse => Filled /\ sinceChange >= TimerDelay

C20_PulseAfterQuietSecond ==
    /\ [](OnAnnual /\ Filled /\ sinceChange = TimerDelay
              => interactionTimer \in { <<0>>, <<>> })
    /\ [](OnAnnual /\ Filled /\ interactionTimer = <<>> => shouldPulse)
    /\ (<>[][inputs' = inputs]_vars) => <>[](OnAnnual /\ Filled => shouldPulse)

\* the pulse is on, in a state whose inputs were entered with the principal
\* negative, and the chart was switched since
C20_Witness ==
    /\ page = "annual"
    /\ shouldPulse
    /\ Filled
    /\ Less(principal, Zero)
    /\ chartType = "stacked"
    /\ sinceChange = TimerDelay

(***************************************************************************)
(* The final balance as a function of the annual rate.                     *)
(***************************************************************************)
\* the rates of the page's four scenarios: the user's own and the three cards
ScenarioRates == <<annualRate>> \o refRates(annualRate)

\* their final balances
ScenarioBalances ==
    <<finalBalance>> \o refBalances(principal, monthlyContribution, annualRate, years)

\* among the scenarios whose rate is at least lowest, a higher rate has no
\* lower final balance, and a higher one when something is invested
RateOrdered(rates, balances, lowest) ==
    \A i, j \in 1..4 :
        Leq(lowest, rates[i]) /\ Less(rates[i], rates[j]) =>
            IF Less(Zero, Add(principal, monthlyContribution))
            THEN Less(balances[i], balances[j])
            ELSE Leq(balances[i], balances[j])

\* the lowest of the rates
LeastRate(rates) ==
    CHOOSE r \in { rates[i] : i \in 1..4 } : \A i \in 1..4 : Leq(r, rates[i])

\* the rate at which a year's growth factor 1 + rate / 100 is zero
TotalLossRate == Neg(Hundred)

\* C28 as it is stated: for principal >= 0, contribution >= 0 and years >= 1
\* the final endBalance is non-decreasing in the annual rate, strictly
\* increasing when principal + contribution > 0, whatever the two rates are.
C28_AsStated ==
    Leq(Zero, principal) /\ Leq(Zero, monthlyContribution) /\ years >= 1 =>
        RateOrdered(ScenarioRates, ScenarioBalances, LeastRate(ScenarioRates))

\* C28, corrected: for principal >= 0, contribution >= 0 and years >= 1 the
\* final endBalance is non-decreasing in the annual rate, strictly increasing
\* when principal + contribution > 0, over the rates that are at least -100,
\* so that among such rates a comparison scenario with a higher rate never
\* shows a lower final balance than one with a lower rate.
C28_BalanceGrowsWithRate ==
    Leq(Zero, principal) /\ Leq(Zero, monthlyContribution) /\ years >= 1 =>
        RateOrdered(ScenarioRates, ScenarioBalances, TotalLossRate)

\* a negative rate above -100 with money invested: the four scenarios differ
C28_Witness ==
    /\ annualRate = Int2Num(-5)
    /\ principal = Int2Num(10000)
    /\ monthlyContribution = Int2Num(5000)
    /\ years = 20
    /\ Less(ScenarioBalances[1], ScenarioBalances[2])
    /\ Less(ScenarioBalances[1], ScenarioBalances[4])
    /\ Less(ScenarioBalances[4], ScenarioBalances[3])

(***************************************************************************)
(* smoothScroll.  The call fixes the target and start positions and         *)
(* requests an animation frame; every frame the browser delivers scrolls   *)
(* the window, until the duration has passed.                               *)
(***************************************************************************)
Half == Dec(5, 1)
Two  == Int2Num(2)

\* easingFunctions[easing](t)
easingFunctions(easing, t) ==
    CASE easing = "linear"         -> t
      [] easing = "easeInQuad"     -> Mul(t, t)
      [] easing = "easeOutQuad"    -> Mul(t, Sub(Two, t))
      [] easing = "easeInOutQuad"  ->
             IF Less(t, Half) THEN Mul(Mul(Two, t), t)
             ELSE Add(Int2Num(-1), Mul(Sub(Int2Num(4), Mul(Two, t)), t))
      [] easing = "easeInCubic"    -> Mul(Mul(t, t), t)
      [] easing = "easeOutCubic"   ->
             Add(Mul(Mul(Sub(t, One), Sub(t, One)), Sub(t, One)), One)
      [] easing = "easeInOutCubic" ->
             IF Less(t, Half) THEN Mul(Mul(Mul(Int2Num(4), t), t), t)
             ELSE Add(Mul(Mul(Sub(t, One), Sub(Mul(Two, t), Two)),
                          Sub(Mul(Two, t), Two)), One)

Easings ==
    { "linear", "easeInQuad", "easeOutQuad", "easeInOutQuad", "easeInCubic",
      "easeOutCubic", "easeInOutCubic" }

\* the defaults of the options
DefaultDuration == 800
DefaultEasing   == "easeOutCubic"
DefaultOffset   == 0

\* the elements of the document, by selector, with the distance of their top
\* edge from the top of the document
Document == [results |-> 1200, chart |-> 600]

\* the furthest the window scrolls
ScrollMax == 1500

\* window.scrollTo(0, y): the window takes the position within its range
scrollTo(y) ==
    IF Less(y, Zero) THEN Zero
    ELSE IF Less(Int2Num(ScrollMax), y) THEN Int2Num(ScrollMax) ELSE y

\* element.getBoundingClientRect().top, relative to the viewport
RectTop(selector) == Sub(Int2Num(Document[selector]), pageYOffset)

\* the targets: a number, a selector or an element; querySelector finds the
\* selectors of Document only
Targets ==
    { [kind |-> "number", at |-> "", y |-> 0],
      [kind |-> "number", at |-> "", y |-> 600],
      [kind |-> "selector", at |-> "results", y |-> 0],
      [kind |-> "selector", at |-> "missing", y |-> 0],
      [kind |-> "element", at |-> "chart", y |-> 0] }

Found(target) == target.kind # "selector" \/ target.at \in DOMAIN Document

\* targetPosition before the offset is applied
TargetOf(target) ==
    IF target.kind = "number" THEN Int2Num(target.y)
    ELSE Add(RectTop(target.at), pageYOffset)

\* what the call fixes: targetPosition, startPosition, distance, and the
\* duration and easing of its options
Fixed(targetPosition, startPosition, duration, easing) ==
    [ targetPosition |-> targetPosition,
      startPosition  |-> startPosition,
      distance       |-> Sub(targetPosition, startPosition),
      duration       |-> duration,
      easing         |-> easing ]

\* the entries of scrollLog: the call, and what it did
Called(target, offset) == <<"smoothScroll", target, offset>>
ScrollTo(y)  == <<"scrollTo", y>>
OnComplete   == <<"onComplete">>
NotFound     == <<"console.error">>

\* as Finish, with the callback before the final scroll
Finish_CompleteFirst(log, targetPosition) ==
    log \o << OnComplete, ScrollTo(targetPosition) >>

\* window.scrollTo(0, targetPosition); if (onComplete) onComplete();
Finish(log, targetPosition) ==
    log \o << ScrollTo(targetPosition), OnComplete >>

\* smoothScroll(target, {duration, easing, offset, onComplete}), called
\* while no earlier call is animating
smoothScroll(target, duration, easing, offset) ==
    /\ ~animationRequested
    /\ currentTime' = 0
    /\ startTime' = <<>>
    /\ UNCHANGED pageYOffset
    /\ IF ~Found(target)
       THEN /\ scrollArgs' = <<>>
            /\ scrollLog' = <<Called(target, offset), NotFound>>
            /\ animationRequested' = FALSE
       ELSE /\ scrollArgs' =
                   Fixed(Add(TargetOf(target), Int2Num(offset)), pageYOffset,
                         duration, easing)
            /\ IF scrollArgs'.distance = Zero
               THEN /\ scrollLog' = <<Called(target, offset), OnComplete>>
                    /\ animationRequested' = FALSE
               ELSE /\ scrollLog' = <<Called(target, offset)>>
                    /\ animationRequested' = TRUE
    /\ UNCHANGED <<calculatorVars, animatedValueVars, hookVars, counterVars>>

\* Math.min(timeElapsed / duration, 1)
Progress(timeElapsed, duration) ==
    IF timeElapsed < duration THEN Div(Int2Num(timeElapsed), Int2Num(duration)) ELSE One

\* startPosition + distance * easedProgress
FramePosition(args, timeElapsed) ==
    Add(args.startPosition,
        Mul(args.distance,
            easingFunctions(args.easing, Progress(timeElapsed, args.duration))))

\* the milliseconds between two animation frames
FrameMs == 200

\* the frames that may be skipped in a row
MaxSkipped == 1

\* animation(time), for the time of the frame
animationAt(time, timeElapsed) ==
    /\ currentTime' = time
    /\ startTime' = <<time - timeElapsed>>
    /\ IF timeElapsed < scrollArgs.duration
       THEN /\ scrollLog' =
                   Append(scrollLog, ScrollTo(FramePosition(scrollArgs, timeElapsed)))
            /\ pageYOffset' = scrollTo(FramePosition(scrollArgs, timeElapsed))
            /\ animationRequested' = TRUE
       ELSE /\ scrollLog' =
                   Finish(Append(scrollLog,
                                 ScrollTo(FramePosition(scrollArgs, timeElapsed))),
                          scrollArgs.targetPosition)
            /\ pageYOffset' = scrollTo(scrollArgs.targetPosition)
            /\ animationRequested' = FALSE
    /\ UNCHANGED scrollArgs
    /\ UNCHANGED <<calculatorVars, animatedValueVars, hookVars, counterVars>>

\* if (startTime === null) startTime = currentTime;
\* timeElapsed = currentTime - startTime
TimeElapsed(time) == IF startTime = <<>> THEN 0 ELSE time - startTime[1]

\* the browser delivers the requested frame, after one frame time or more
animation ==
    /\ animationRequested
    /\ \E frames \in 1..(1 + MaxSkipped) :
          animationAt(currentTime + frames * FrameMs,
                      TimeElapsed(currentTime + frames * FrameMs))

\* the options a call is made with
Durations == { DefaultDuration, 400 }
Offsets   == { DefaultOffset, -80 }

\* where the window is when the call is made
StartPositions == { 0, 600, 1200 }

SmoothScrollInit ==
    /\ Mounted(FALSE, FALSE)
    /\ pageYOffset \in { Int2Num(y) : y \in StartPositions }
    /\ scrollArgs = <<>>
    /\ startTime = <<>>
    /\ animationRequested = FALSE
    /\ currentTime = 0
    /\ scrollLog = <<>>
    /\ AnimatedValueAtRest /\ HookAtRest /\ CounterAtRest

\* one call is made, and its frames follow
SmoothScrollNext ==
    \/ /\ scrollLog = <<>>
       /\ \E target \in Targets, duration \in Durations, easing \in Easings,
             offset \in Offsets : smoothScroll(target, duration, easing, offset)
    \/ animation

SmoothScrollSpec == SmoothScrollInit /\ [][SmoothScrollNext]_vars

\* the step of animation, told by what it does to the clock
FrameDelivered ==
    /\ animationRequested
    /\ \E frames \in 1..(1 + MaxSkipped) : currentTime' = currentTime + frames * FrameMs

\* the browser delivers a requested animation frame, and time passes
SmoothScrollLiveSpec == SmoothScrollSpec /\ WF_currentTime(FrameDelivered)

\* a call has fixed its positions: its target was found
Resolved == DOMAIN scrollArgs # {}

\* how often entries of the kind occur in the log
Occurrences(log, kind) == Cardinality({ i \in 1..Len(log) : log[i][1] = kind })

\* the log of a call at a non-zero distance: no callback while frames are
\* requested, and once none is, the final scroll to targetPosition followed by
\* the one callback
AnimatedLog ==
    IF animationRequested
    THEN Occurrences(scrollLog, "onComplete") = 0
    ELSE /\ Len(scrollLog) >= 4
         /\ scrollLog[Len(scrollLog) - 1] = ScrollTo(scrollArgs.targetPosition)
         /\ scrollLog[Len(scrollLog)] = OnComplete
         /\ Occurrences(scrollLog, "onComplete") = 1

\* the last call was made with a selector that matches no element
CalledWithoutElement == scrollLog # <<>> /\ ~Found(scrollLog[1][2])

\* the targetPosition of the last call is the target plus the offset
TargetPlusOffset ==
    scrollArgs.targetPosition =
        Add(IF scrollLog[1][2].kind = "number" THEN Int2Num(scrollLog[1][2].y)
            ELSE Int2Num(Document[scrollLog[1][2].at]),
            Int2Num(scrollLog[1][3]))

\* C25: smoothScroll with a resolvable target at a non-zero distance
\* terminates: its last action scrolls to exactly targetPosition (target plus
\* offset) and onComplete is called exactly once, after that final scroll;
\* with zero distance onComplete is called exactly once and no scroll is
\* issued; with a selector that matches no element nothing is scrolled and
\* onComplete is never called.
C25_ScrollEndsAtTarget ==
    /\ [](Resolved /\ scrollArgs.distance # Zero => AnimatedLog /\ TargetPlusOffset)
    /\ [](Resolved /\ scrollArgs.distance = Zero =>
              /\ scrollLog = <<scrollLog[1], OnComplete>>
              /\ TargetPlusOffset
              /\ ~animationRequested)
    /\ [](CalledWithoutElement =>
              /\ scrollLog = <<scrollLog[1], NotFound>>
              /\ ~Resolved
              /\ ~animationRequested)
    /\ (animationRequested ~> ~animationRequested)

\* a call to the element of the selector, with an offset and the easing that
\* has two branches, has ended after three frames and more
C25_Witness ==
    /\ Resolved
    /\ ~animationRequested
    /\ scrollArgs.easing = "easeInOutCubic"
    /\ scrollArgs.targetPosition = Int2Num(1120)
    /\ scrollArgs.startPosition = Int2Num(600)
    /\ Len(scrollLog) >= 6
    /\ pageYOffset = Int2Num(1120)

(***************************************************************************)
(* The pages of the yearly table.                                          *)
(***************************************************************************)
\* the rows of the pages 1..last, one page after the other
RECURSIVE PagesUpTo(_)
PagesUpTo(last) ==
    IF last = 0 THEN <<>>
    ELSE PagesUpTo(last - 1)
             \o paginatedDataOf(yearlyData, isMobile, isTablet, last, itemsPerPage)

\* currentPage is one of the pages, no page is empty, and the pages together
\* are the rows of yearlyData in their order
PaginationAtRest ==
    /\ 1 <= currentPage
    /\ currentPage <= totalPages
    /\ \A p \in 1..totalPages :
           paginatedDataOf(yearlyData, isMobile, isTablet, p, itemsPerPage) # <<>>
    /\ PagesUpTo(totalPages) = yearlyData

\* the screen the media queries report
screen == <<isMobile, isTablet>>

\* C26: table pagination at rest: after any sequence of next-page,
\* previous-page, input-change and breakpoint-change events, once effects
\* have run, 1 <= currentPage <= totalPages, the pages 1..totalPages partition
\* the yearlyData sequence in order, and any change of the sequence length or
\* of the breakpoint returns currentPage to 1.
C26_PaginationAtRest ==
    /\ [](OnAnnual => PaginationAtRest)
    /\ [][OnAnnual /\ (Len(yearlyData') # Len(yearlyData) \/ screen' # screen)
              => currentPage' = 1]_vars

\* the second of two pages on a mobile screen, reached with the next-page
\* button after an input change
C26_Witness ==
    /\ OnAnnual
    /\ isMobile
    /\ currentPage = 2
    /\ totalPages = 2
    /\ Len(yearlyData) = 5
    /\ Len(paginatedData) = 2

\* the render that follows the event of a step and precedes the effects: it
\* has the new projection and the new screen, with the page and the rows per
\* page that the handler has left
paginatedDataBeforeEffects ==
    paginatedDataOf(yearlyData', isMobile', isTablet',
                    IF Len(yearlyData') # Len(yearlyData) \/ screen' # screen
                    THEN currentPage ELSE currentPage',
                    itemsPerPage)

\* C27 as it is stated: on mobile and tablet, every render of the yearly
\* table, including the render that follows an input change and precedes
\* the page-reset effect, shows at least one row: paginatedData is never the
\* empty slice.
C27_AsStated ==
    /\ [](OnAnnual /\ (isMobile \/ isTablet) => paginatedData # <<>>)
    /\ [][OnAnnual /\ (isMobile' \/ isTablet') => paginatedDataBeforeEffects # <<>>]_vars

\* the table is on its second page, of rows that a shorter projection does
\* not have
C27_FailingState ==
    /\ OnAnnual
    /\ isMobile
    /\ currentPage = 2
    /\ years = 4
    /\ paginatedDataOf(calculateYearlyData(principal, monthlyContribution, annualRate, 1),
                       isMobile, isTablet, currentPage, itemsPerPage) = <<>>

(***************************************************************************)
(* useScrollAnimation, in its three sources: src/unnamed/part_000, which   *)
(* follows the intersection alone, src/src/hooks/useScrollAnimation.ts,    *)
(* which tracks the scroll direction, and src/unnamed/part_006, which      *)
(* also folds the card at the top of the page.  Lengths are in pixels.     *)
(***************************************************************************)
HookSources == { "part_000", "hooks", "part_006" }

TracksDirection == hookSource \in { "hooks", "part_006" }

\* the defaults of the options: threshold in percent, and the pixels that
\* rootMargin takes from the top and the bottom of the viewport
DefaultOptions(source, once) ==
    IF source = "part_006"
    THEN [threshold |-> 10, rootMargin |-> 20, triggerOnce |-> once]
    ELSE [threshold |-> 30, rootMargin |-> 50, triggerOnce |-> once]

\* window.innerHeight
ViewportHeight == 600

\* the elements a ref is attached to: the card at the top of the page and
\* one further down, by the distance of their top edge from the top of the
\* document and their height
Elements == [hero |-> [top |-> 0, height |-> 400], card |-> [top |-> 1000, height |-> 400]]

\* where the window is scrolled to
ScrollPositions == { 0, 300, 500, 600, 900, 1500 }

\* ref.current.getBoundingClientRect(), with the window at y
RectTopAt(y)    == Elements[element].top - y
RectBottomAt(y) == RectTopAt(y) + Elements[element].height

Least(a, b)    == IF a < b THEN a ELSE b
Greatest(a, b) == IF a < b THEN b ELSE a

\* the pixels of the element's height within the viewport less its margins
VisibleAt(y) ==
    Greatest(0, Least(RectBottomAt(y), ViewportHeight - hookOptions.rootMargin)
                    - Greatest(RectTopAt(y), hookOptions.rootMargin))

\* entry.isIntersecting: the visible share has reached the threshold
IsIntersectingAt(y) ==
    /\ VisibleAt(y) > 0
    /\ VisibleAt(y) * 100 >= hookOptions.threshold * Elements[element].height

\* what the callback of part_000 leaves of isVisible
callback_000(isIntersecting, visible) ==
    IF isIntersecting THEN TRUE
    ELSE IF ~hookOptions.triggerOnce THEN FALSE ELSE visible

\* as callback_hooks, hiding whatever the direction is
callback_hooks_AnyDirection(isIntersecting, elementBottom, visible) ==
    IF isIntersecting THEN (IF scrollingDown THEN TRUE ELSE visible)
    ELSE IF ~hookOptions.triggerOnce /\ elementBottom > ViewportHeight
         THEN FALSE ELSE visible

\* what the callback of src/hooks leaves of isVisible
callback_hooks(isIntersecting, elementBottom, visible) ==
    IF isIntersecting THEN (IF scrollingDown THEN TRUE ELSE visible)
    ELSE IF ~scrollingDown /\ ~hookOptions.triggerOnce /\ elementBottom > ViewportHeight
         THEN FALSE ELSE visible

\* what the callback of part_006 leaves of isVisible
callback_006(isIntersecting, ratioIsZero, elementBottom, visible) ==
    IF isIntersecting
    THEN IF scrollingDown THEN TRUE
         ELSE IF scrollY <= 0 THEN FALSE ELSE visible
    ELSE IF /\ ~scrollingDown
            /\ ~hookOptions.triggerOnce
            /\ ratioIsZero
            /\ elementBottom > ViewportHeight
         THEN FALSE ELSE visible

\* the callback of the observer, for the entry of the element as it lies now
callback(isIntersecting) ==
    CASE hookSource = "part_000" -> callback_000(isIntersecting, isVisible)
      [] hookSource = "hooks" ->
             callback_hooks(isIntersecting, RectBottomAt(scrollY), isVisible)
      [] hookSource = "part_006" ->
             callback_006(isIntersecting, VisibleAt(scrollY) = 0,
                          RectBottomAt(scrollY), isVisible)

\* observer.disconnect() is called
Disconnects(isIntersecting) ==
    /\ isIntersecting
    /\ hookOptions.triggerOnce
    /\ TracksDirection => scrollingDown

\* the observer notifies: on the first observation, and when the element has
\* crossed the threshold since the last entry
IntersectionCallback ==
    /\ observing
    /\ previousIsIntersecting # <<IsIntersectingAt(scrollY)>>
    /\ previousIsIntersecting' = <<IsIntersectingAt(scrollY)>>
    /\ isVisible' = callback(IsIntersectingAt(scrollY))
    /\ observing' = ~Disconnects(IsIntersectingAt(scrollY))
    /\ UNCHANGED <<hookSource, hookOptions, element, scrollY, scrollingDown, prevScrollY>>

\* the window is scrolled to y: handleScroll, and when scrollingDown has
\* changed the effect runs again, with a new observer on the element
handleScroll(y) ==
    /\ y # scrollY
    /\ scrollY' = y
    /\ IF TracksDirection
       THEN /\ scrollingDown' = (y > prevScrollY)
            /\ prevScrollY' = y
            /\ IF scrollingDown' # scrollingDown
               THEN observing' = TRUE /\ previousIsIntersecting' = <<>>
               ELSE UNCHANGED <<observing, previousIsIntersecting>>
       ELSE UNCHANGED <<scrollingDown, prevScrollY, observing, previousIsIntersecting>>
    /\ UNCHANGED <<hookSource, hookOptions, element, isVisible>>

\* the hook after the first render and its effects, the window being at y
HookMounted(source, options, el, y) ==
    /\ hookSource = source
    /\ hookOptions = options
    /\ element = el
    /\ scrollY = y
    /\ isVisible = FALSE
    /\ scrollingDown = TRUE
    /\ prevScrollY = y
    /\ observing = TRUE
    /\ previousIsIntersecting = <<>>

\* where the window is when the component mounts
MountPositions == { 0, 600 }

HookInit ==
    /\ Mounted(FALSE, FALSE)
    /\ SmoothScrollAtRest /\ AnimatedValueAtRest /\ CounterAtRest
    /\ \E source \in HookSources, once \in BOOLEAN, el \in DOMAIN Elements,
          y \in MountPositions :
          HookMounted(source, DefaultOptions(source, once), el, y)

HookNext ==
    \/ /\ \E y \in ScrollPositions : handleScroll(y)
       /\ UNCHANGED <<calculatorVars, smoothScrollVars, animatedValueVars, counterVars>>
    \/ /\ IntersectionCallback
       /\ UNCHANGED <<calculatorVars, smoothScrollVars, animatedValueVars, counterVars>>

HookSpec == HookInit /\ [][HookNext]_vars

\* C22 as it is stated: in each variant of useScrollAnimation called with
\* triggerOnce = true, once isVisible has become true it never becomes false
\* again, for any later sequence of scroll and intersection events.
C22_AsStated == [][hookOptions.triggerOnce /\ isVisible => isVisible']_vars

\* part_006 with triggerOnce: the element at the top was shown, the window
\* was scrolled down and is back at the top, and the observer of the new
\* direction has its first entry to deliver
C22_FailingState ==
    /\ hookSource = "part_006"
    /\ hookOptions.triggerOnce
    /\ isVisible
    /\ ~scrollingDown
    /\ scrollY = 0
    /\ observing
    /\ previousIsIntersecting = <<>>
    /\ IsIntersectingAt(scrollY)

\* isVisible turns from true to false
Hidden == isVisible /\ ~isVisible'

\* the step is a callback of the observer
InCallback == previousIsIntersecting' # previousIsIntersecting /\ scrollY' = scrollY

AnimatedValueSources == { "part_004", "part_006" }

\* the change below which the value is set without animation, in tenths:
\* 0.1 in part_004 and 1.0 in part_006
SmallChange(source) == IF source = "part_004" THEN 1 ELSE 10

\* how many frames an animation takes when none is skipped
AnimationFrames == 3

\* the value of the animation at a keyframe: the frames divide the way from
\* one end to the other, in the place of the easing curve
Latest(anim, keyframe) ==
    (anim.from * AnimationFrames + (anim.to - anim.from) * keyframe) \div AnimationFrames

\* Math.round(latest), with precision 0
Round(latest) == ((2 * latest + 10) \div 20) * 10

\* animate(prevValueRef.current, value, ...)
animate(from, to) == [from |-> from, to |-> to, keyframe |-> 0]

\* the cleanup of the last run of the effect, and the effect, in a render
\* that has set displayValue to shown: the timeout is cleared and the
\* animation stopped; a small change is shown at once, and else the
\* animation from prevValueRef starts, in part_006 after the timeout
EffectRuns(shown) ==
    IF Abs(valueProp' - prevValueRef) < SmallChange(animatedValueSource)
    THEN /\ displayValue' = valueProp'
         /\ prevValueRef' = valueProp'
         /\ debounceRef' = FALSE
         /\ animRef' = <<>>
    ELSE /\ displayValue' = shown
         /\ UNCHANGED prevValueRef
         /\ debounceRef' = (animatedValueSource = "part_006")
         /\ animRef' = IF animatedValueSource = "part_006" THEN <<>>
                       ELSE animate(prevValueRef, valueProp')

\* the parent renders the component with a new value
ValueChange(v) ==
    /\ v # valueProp
    /\ valueProp' = v
    /\ EffectRuns(displayValue)
    /\ UNCHANGED <<animatedValueSource, easingProp>>

\* the timeout of part_006 fires: the animation starts
DebounceFires ==
    /\ debounceRef
    /\ debounceRef' = FALSE
    /\ animRef' = animate(prevValueRef, valueProp)
    /\ UNCHANGED <<animatedValueSource, easingProp, valueProp, displayValue, prevValueRef>>

\* a frame of the running animation, which takes it to the keyframe.  The
\* last keyframe calls onUpdate and onComplete.  An earlier one calls
\* onUpdate: when that changes displayValue the component renders again, and
\* with the default easing the effect runs again
FrameTo(keyframe) ==
    /\ UNCHANGED <<animatedValueSource, easingProp, valueProp>>
    /\ IF keyframe = AnimationFrames
       THEN /\ displayValue' = animRef.to
            /\ prevValueRef' = animRef.to
            /\ animRef' = <<>>
            /\ UNCHANGED debounceRef
       ELSE IF /\ Round(Latest(animRef, keyframe)) # displayValue
               /\ easingProp = "default"
       THEN EffectRuns(Round(Latest(animRef, keyframe)))
       ELSE /\ displayValue' = Round(Latest(animRef, keyframe))
            /\ animRef' = [animRef EXCEPT !.keyframe = keyframe]
            /\ UNCHANGED <<prevValueRef, debounceRef>>

\* the browser delivers a frame; up to all the frames that remain are skipped
Frame ==
    /\ animRef # <<>>
    /\ \E keyframe \in (animRef.keyframe + 1)..AnimationFrames : FrameTo(keyframe)

\* the values the parent passes, in tenths: 0, 0.5, 1, 3 and 100
ValueProps == { 0, 5, 10, 30, 1000 }

AnimatedValueMounted(source, easing, v) ==
    /\ animatedValueSource = source
    /\ easingProp = easing
    /\ valueProp = v
    /\ displayValue = v
    /\ prevValueRef = v
    /\ debounceRef = FALSE
    /\ animRef = <<>>

AnimatedValueInit ==
    /\ Mounted(FALSE, FALSE)
    /\ SmoothScrollAtRest /\ HookAtRest /\ CounterAtRest
    /\ \E source \in AnimatedValueSources, easing \in { "default", "constant" } :
          AnimatedValueMounted(source, easing, 0)

AnimatedValueNext ==
    \/ /\ \E v \in ValueProps : ValueChange(v)
       /\ UNCHANGED <<calculatorVars, smoothScrollVars, hookVars, counterVars>>
    \/ /\ DebounceFires
       /\ UNCHANGED <<calculatorVars, smoothScrollVars, hookVars, counterVars>>
    \/ /\ Frame
       /\ UNCHANGED <<calculatorVars, smoothScrollVars, hookVars, counterVars>>

AnimatedValueSpec == AnimatedValueInit /\ [][AnimatedValueNext]_vars

\* a pending timeout fires, and the browser delivers the frames of a running
\* animation
AnimatedValueLiveSpec ==
    /\ AnimatedValueSpec
    /\ WF_animatedValueVars(DebounceFires)
    /\ WF_animatedValueVars(Frame)

\* from some time on the value prop stays as it is, and from some time on
\* displayValue is the value prop
ValueShownInTheEnd == (<>[][valueProp' = valueProp]_vars) => <>[](displayValue = valueProp)

\* C21 as it is stated: AnimatedValue, with the easing prop left at its
\* default: after the value prop changes to v (by at least 1) and then stays
\* v, the animation runs to completion and displayValue eventually equals v
\* exactly and stays there.
C21_AsStated == easingProp = "default" => ValueShownInTheEnd

\* part_004 with the default easing: the value has changed from 0 to 3, a
\* frame has shown 1, and the effect of that render has started the
\* animation again from 0
C21_FailingState ==
    /\ animatedValueSource = "part_004"
    /\ easingProp = "default"
    /\ valueProp = 30
    /\ prevValueRef = 0
    /\ displayValue = 10
    /\ animRef = animate(0, 30)

\* with an easing prop that is the same array in every render the same
\* holds
AnimationCompletesWithConstantEasing == easingProp = "constant" => ValueShownInTheEnd

(***************************************************************************)
(* AnimatedCounter (src/src/components/AnimatedCounter.tsx), on the hook of *)
(* src/src/hooks/useScrollAnimation.ts.  Time is counted in the tenths of  *)
(* the duration, at which the power of two of the easing is exact, and     *)
(* from the frame that set startTimeRef, animate using the difference of   *)
(* the two alone.  The loops of animate that run at a time share           *)
(* startTimeRef and the frames, and so set the same count: frameRef tells  *)
(* that there is one.                                                      *)
(***************************************************************************)
\* the factor of progress in the exponent of the easing; a frame falls on a
\* multiple of duration / ExpoRate
ExpoRate == 10

\* the options the counter passes to the hook: its threshold of 0.1
CounterOptions == [DefaultOptions("hooks", FALSE) EXCEPT !.threshold = 10]

\* the value props: none, the one of the home page, a power of two and a
\* negative one
CounterValues == { Zero, Int2Num(HomeDisplayedValue), Int2Num(1024), Int2Num(-512) }

\* as currentCount, the easing passing the end by as much as it should fall
\* short of it
currentCount_Overshoots(tenths) ==
    IF useEasing
    THEN Div(Mul(Int2Num(2 ^ tenths + 1), counterValue), Int2Num(2 ^ tenths))
    ELSE Div(Mul(Int2Num(tenths), counterValue), Int2Num(ExpoRate))

\* easedProgress * value, for a progress below 1 given in tenths:
\* easedProgress is 1 - 2^(-10 * progress), or progress without easing
currentCount(tenths) ==
    IF useEasing
    THEN Div(Mul(Int2Num(2 ^ tenths - 1), counterValue), Int2Num(2 ^ tenths))
    ELSE Div(Mul(Int2Num(tenths), counterValue), Int2Num(ExpoRate))

\* the two effects of the counter in the render after the callback of the
\* observer.  When isVisible has become true, startTimeRef and count are
\* reset and the timeout is set; when it has become false the timeout is
\* cleared.  A frame that animate has requested stays requested
CounterEffects ==
    IF isVisible' = isVisible THEN UNCHANGED counterVars
    ELSE /\ delayTimeout' = isVisible'
         /\ IF isVisible'
            THEN startTimeRef' = <<>> /\ count' = Zero
            ELSE UNCHANGED <<startTimeRef, count>>
         /\ UNCHANGED <<counterValue, useEasing, frameRef, timestamp>>

\* the timeout fires: the first frame of animate is requested
DelayTimeoutFires ==
    /\ delayTimeout
    /\ delayTimeout' = FALSE
    /\ frameRef' = TRUE
    /\ UNCHANGED <<counterValue, useEasing, count, startTimeRef, timestamp>>

\* the times the next frame can have
FrameTimes ==
    IF startTimeRef = <<>> THEN { 0 }
    ELSE Least(timestamp + 1, ExpoRate)..ExpoRate

\* animate(timestamp): startTimeRef is set if it was null; the count of the
\* progress is set, and at progress 1 the value itself, and before it the
\* next frame is requested
animateAt(time) ==
    /\ frameRef
    /\ startTimeRef' = <<0>>
    /\ timestamp' = time
    /\ count' = IF time >= ExpoRate THEN counterValue ELSE currentCount(time)
    /\ frameRef' = (time < ExpoRate)
    /\ UNCHANGED <<counterValue, useEasing, delayTimeout>>

CounterInit ==
    /\ Mounted(FALSE, FALSE)
    /\ SmoothScrollAtRest /\ AnimatedValueAtRest
    /\ \E el \in DOMAIN Elements, y \in MountPositions :
          HookMounted("hooks", CounterOptions, el, y)
    /\ counterValue \in CounterValues
    /\ useEasing \in BOOLEAN
    /\ count = Zero
    /\ startTimeRef = <<>>
    /\ delayTimeout = FALSE
    /\ frameRef = FALSE
    /\ timestamp = 0

CounterNext ==
    \/ /\ \E y \in ScrollPositions : handleScroll(y)
       /\ UNCHANGED <<calculatorVars, smoothScrollVars, animatedValueVars, counterVars>>
    \/ /\ IntersectionCallback
       /\ CounterEffects
       /\ UNCHANGED <<calculatorVars, smoothScrollVars, animatedValueVars>>
    \/ /\ DelayTimeoutFires
       /\ UNCHANGED <<calculatorVars, smoothScrollVars, animatedValueVars, hookVars>>
    \/ /\ \E time \in FrameTimes : animateAt(time)
       /\ UNCHANGED <<calculatorVars, smoothScrollVars, animatedValueVars, hookVars>>

CounterSpec == CounterInit /\ [][CounterNext]_vars

\* the steps of DelayTimeoutFires and of animateAt by the variables that
\* tell them from the other steps
DelayTimeoutDue == delayTimeout /\ delayTimeout' = FALSE

AnimationFrameDue ==
    /\ frameRef
    /\ startTimeRef' = <<0>>
    /\ \E time \in FrameTimes : timestamp' = time
    /\ frameRef' = (timestamp' < ExpoRate)

\* a pending timeout fires and a requested frame is delivered
CounterLiveSpec ==
    /\ CounterSpec
    /\ WF_delayTimeout(DelayTimeoutDue)
    /\ WF_<<startTimeRef, timestamp, frameRef>>(AnimationFrameDue)

====
